---- MODULE Spec2Model ----
(***************************************************************************)
(* A model of AShareAnalyzer (src/fetch_data.py): the board classifier,    *)
(* the five-minute snapshot cache, the market statistics aggregation, the  *)
(* analyses that read the snapshot, the daily records with the historical  *)
(* summary built from them, the yearly workbook and the steps of main().   *)
(*                                                                         *)
(* Strings that the code inspects character by character (stock codes)     *)
(* are sequences of one-character strings.  A table (pandas DataFrame) is  *)
(* a sequence of rows; the empty DataFrame is the empty sequence.  A field  *)
(* that may be None holds None or Some(v).                                 *)
(***************************************************************************)
EXTENDS Integers, Sequences, FiniteSets, TLC

VARIABLES
    code,               \* classifier input: the argument of classify_stock_board
    board,              \* classifier output, "none" before the call
    now,                \* the wall clock, in whole seconds (datetime.now())
    cached_stock_data,  \* self._cached_stock_data
    cache_timestamp,    \* self._cache_timestamp
    ticks,              \* how often the clock has advanced
    calls,              \* how many get_stock_data_with_board calls were made
    provider_calls,     \* how many ak.stock_zh_a_spot_em calls were issued
    ever_ok,            \* a fetch has succeeded (stored a table) on this analyzer
    last,               \* what the last get_stock_data_with_board call saw and did
    stats,              \* what the get_market_stats call was given and returned
    report,             \* what a snapshot analysis was given and returned
    today,              \* self.today, the date of construction as YYYYMMDD
    store,              \* the files data/ashare_analysis_<date>.json, by date
    history,            \* what the last save or summary call was given and did
    pc,                 \* where main() stands, "idle" when it is not running
    run_results,        \* the local `results` of main(), None before run_analysis
    excel,              \* the workbooks 复盘记录<year>.xlsx, by year
    log                 \* the calls main() has made in this run, and with what

vars == <<code, board, now, cached_stock_data, cache_timestamp, ticks, calls,
          provider_calls, ever_ok, last, stats, report, today, store, history,
          pc, run_results, excel, log>>

None == [has |-> FALSE]
Some(v) == [has |-> TRUE, v |-> v]

(***************************************************************************)
(* Bounds of the model.                                                    *)
(***************************************************************************)
MaxCodeLen == 3
MaxTicks == 3
MaxCalls == 3
MaxSnapRows == 2
MaxPoolRows == 1
MaxRun == 30
MaxExtremeRows == 2
MaxCohortRows == 2
MaxTodayRows == 2
MaxSaves == 3
MaxRuns == 2
MaxDamaged == 1
MaxValueLen == 3
MaxRestarts == 1

(***************************************************************************)
(* Board classification.                                                   *)
(***************************************************************************)
Segments == {"MainBoard", "SciTechBoard", "GrowthBoard", "BeijingExchange"}

\* the characters a code is made of: the ten digits and one non-digit
Chars == {"0", "1", "2", "3", "4", "5", "6", "7", "8", "9", "x"}

RECURSIVE StringsUpTo(_)
StringsUpTo(n) ==
    IF n = 0 THEN {<<>>}
    ELSE LET shorter == StringsUpTo(n - 1)
         IN  shorter \cup {Append(s, c) : s \in {t \in shorter : Len(t) = n - 1}, c \in Chars}

\* str.startswith(prefix)
startswith(s, prefix) ==
    /\ Len(prefix) <= Len(s)
    /\ SubSeq(s, 1, Len(prefix)) = prefix

\* a plausible slip: the one-character rule for '6' tested before the '68' rule
classify_stock_board_6_first(stock_code) ==
    IF startswith(stock_code, <<"6">>) THEN "MainBoard"
    ELSE IF startswith(stock_code, <<"6", "8">>) THEN "SciTechBoard"
    ELSE IF startswith(stock_code, <<"3">>) THEN "GrowthBoard"
    ELSE IF \/ startswith(stock_code, <<"4">>)
            \/ startswith(stock_code, <<"8">>)
            \/ startswith(stock_code, <<"9">>) THEN "BeijingExchange"
    ELSE "MainBoard"

classify_stock_board(stock_code) ==
    IF startswith(stock_code, <<"6", "8">>) THEN "SciTechBoard"
    ELSE IF startswith(stock_code, <<"3">>) THEN "GrowthBoard"
    ELSE IF \/ startswith(stock_code, <<"4">>)
            \/ startswith(stock_code, <<"8">>)
            \/ startswith(stock_code, <<"9">>) THEN "BeijingExchange"
    ELSE IF startswith(stock_code, <<"0">>) THEN "MainBoard"
    ELSE IF startswith(stock_code, <<"6">>) THEN "MainBoard"
    ELSE "MainBoard"

(***************************************************************************)
(* The snapshot cache.                                                     *)
(***************************************************************************)
FRESH_SECONDS == 300
SECONDS_PER_DAY == 86400

\* timedelta.seconds: the seconds field of the normalised (days, seconds)
\* pair, not the total number of seconds
timedelta_seconds(delta) == delta % SECONDS_PER_DAY

\* the leading characters of a code of each board (600519, 688001, 300750,
\* 430047): the classifier reads no further
CodeMain == <<"6", "0">>
CodeSciTech == <<"6", "8">>
CodeGrowth == <<"3", "0">>
CodeBeijing == <<"4", "3">>

\* what ak.stock_zh_a_spot_em can do: raise, or return a table of quotes
Raise == [kind |-> "raise"]
Returns(rows) == [kind |-> "ok", rows |-> rows]

\* a quote row: its code (代码) and its percent change (涨跌幅), None for NaN
Quote(c, pct) == [code |-> c, pct |-> pct]

CacheProviderOutcomes ==
    { Raise,
      Returns(<<>>),
      Returns(<<Quote(CodeMain, Some(5))>>),
      Returns(<<Quote(CodeSciTech, Some(-5)), Quote(CodeGrowth, Some(11))>>) }

\* stock_data['板块'] = stock_data['代码'].apply(self.classify_stock_board)
with_board(rows) ==
    [i \in 1..Len(rows) |->
        [f \in (DOMAIN rows[i]) \cup {"board"} |->
            IF f = "board" THEN classify_stock_board(rows[i].code) ELSE rows[i][f]]]

\* a plausible slip: the window compared with the wrong constant
cache_is_valid_short(force_refresh, data, ts, current_time) ==
    /\ ~force_refresh
    /\ data # None
    /\ ts # None
    /\ timedelta_seconds(current_time - ts.v) < 30

\* the condition of the cache-hit branch
cache_is_valid(force_refresh, data, ts, current_time) ==
    /\ ~force_refresh
    /\ data # None
    /\ ts # None
    /\ timedelta_seconds(current_time - ts.v) < FRESH_SECONDS

\* a plausible slip: the fallback is only taken while the cache is fresh
fallback_on_error_fresh_only(data, ts, current_time) ==
    IF data # None /\ ts # None /\ timedelta_seconds(current_time - ts.v) < FRESH_SECONDS
    THEN data.v ELSE <<>>

\* the except branch: the cached table if there is one, else an empty table
fallback_on_error(data, ts, current_time) ==
    IF data # None THEN data.v ELSE <<>>

\* a plausible slip: the empty table is stored like any other
fetch_and_store_empty_too(prov, current_time) ==
    IF prov.kind = "raise"
    THEN [exc |-> TRUE]
    ELSE [exc |-> FALSE, ret |-> with_board(prov.rows), store |-> TRUE]

\* the body of the try block: the provider call, the empty check, the
\* classification and the cache update; exc is set when it raises
fetch_and_store(prov, current_time) ==
    IF prov.kind = "raise"
    THEN [exc |-> TRUE]
    ELSE IF prov.rows = <<>>
    THEN [exc |-> FALSE, ret |-> <<>>, store |-> FALSE]
    ELSE [exc |-> FALSE, ret |-> with_board(prov.rows), store |-> TRUE]

\* get_stock_data_with_board: the value returned, the new cache state,
\* whether the provider was called and whether the call raised
get_stock_data_with_board(force_refresh, data, ts, current_time, prov) ==
    IF cache_is_valid(force_refresh, data, ts, current_time)
    THEN [ret |-> data.v, data |-> data, ts |-> ts,
          called |-> FALSE, raised |-> FALSE, path |-> "hit"]
    ELSE LET body == fetch_and_store(prov, current_time)
         IN  IF body.exc
             THEN [ret |-> fallback_on_error(data, ts, current_time),
                   data |-> data, ts |-> ts,
                   called |-> TRUE, raised |-> FALSE, path |-> "except"]
             ELSE IF body.store
             THEN [ret |-> body.ret, data |-> Some(body.ret),
                   ts |-> Some(current_time),
                   called |-> TRUE, raised |-> FALSE, path |-> "stored"]
             ELSE [ret |-> body.ret, data |-> data, ts |-> ts,
                   called |-> TRUE, raised |-> FALSE, path |-> "empty"]

(***************************************************************************)
(* Market statistics (get_market_stats).                                   *)
(***************************************************************************)
\* the order of the loops `for board in ['主板', '科创板', '创业板', '北交所']`
Boards == <<"MainBoard", "SciTechBoard", "GrowthBoard", "BeijingExchange">>

\* an empty DataFrame without columns (pd.DataFrame()), which a pool
\* interface returns when the exchange has no pool for the date
Bare == [kind |-> "bare", rows |-> <<>>]

\* the provider was not asked
NotFetched == [kind |-> "not fetched"]

\* the result {} of a failed or short-circuited aggregation
EmptyDict == [empty |-> TRUE]

\* len(df[df['板块'] == board]) over rows that carry a code
count_board(rows, b) ==
    Cardinality({i \in 1..Len(rows) : classify_stock_board(rows[i].code) = b})

\* len(df[df['板块'] != '主板'])
count_non_main(rows) ==
    Cardinality({i \in 1..Len(rows) : classify_stock_board(rows[i].code) # "MainBoard"})

\* comparisons of 涨跌幅 with a number; every comparison with NaN is false
pct_gt(q, x) == q.pct # None /\ q.pct.v > x
pct_lt(q, x) == q.pct # None /\ q.pct.v < x
pct_eq(q, x) == q.pct # None /\ q.pct.v = x

\* len(df[df['涨跌幅'] > x]) and len(df[df['涨跌幅'] < x])
count_over(rows, x) == Cardinality({i \in 1..Len(rows) : pct_gt(rows[i], x)})
count_under(rows, x) == Cardinality({i \in 1..Len(rows) : pct_lt(rows[i], x)})

\* len(df[df['涨跌幅'] == 0])
count_flat(rows) == Cardinality({i \in 1..Len(rows) : pct_eq(rows[i], 0)})

\* len(limit_up_data[limit_up_data['连板数'] >= n])
count_days_from(rows, n) == Cardinality({i \in 1..Len(rows) : rows[i].days >= n})

board_rows(stock_data, b) == SelectSeq(stock_data, LAMBDA q : q.board = b)

\* round(x, 2) of the percentage n / d * 100, in hundredths of a percent:
\* the nearest hundredth, an exact tie going to the even neighbour (a tie
\* needs d to be a multiple of 32)
round2_pct(n, d) ==
    LET q == (n * 10000) \div d
        r == (n * 10000) % d
    IN  IF 2 * r < d THEN q
        ELSE IF 2 * r > d THEN q + 1
        ELSE IF q % 2 = 0 THEN q ELSE q + 1

\* a plausible slip: the ratio taken the wrong way round
money_effect_inverted(up_count, total) ==
    IF total > 0 /\ up_count > 0 THEN round2_pct(total, up_count) ELSE 0

\* (up_count / total * 100) if total > 0 else 0, rounded to two places
money_effect_of(up_count, total) ==
    IF total > 0 THEN round2_pct(up_count, total) ELSE 0

\* (exploded / (limit_up + exploded) * 100) if limit_up + exploded > 0 else 0
exploded_rate_of(limit_up, exploded) ==
    IF limit_up + exploded > 0 THEN round2_pct(exploded, limit_up + exploded) ELSE 0

\* str(n) for an integer, as a sequence of characters
Digit(d) == <<"0", "1", "2", "3", "4", "5", "6", "7", "8", "9">>[d + 1]

RECURSIVE str_nat(_)
str_nat(n) == IF n < 10 THEN <<Digit(n)>> ELSE Append(str_nat(n \div 10), Digit(n % 10))

str_int(n) == IF n < 0 THEN <<"-">> \o str_nat(-n) ELSE str_nat(n)

\* a plausible slip: the limit-down side formatted like the limit-up side
up_down_rate_symmetric(limit_up_count, non_main_up, not_limit_up, limit_down_count, non_main_down, not_limit_down) ==
    str_int(limit_up_count) \o <<"(">> \o str_int(non_main_up) \o <<")", "+">>
        \o str_int(not_limit_up) \o <<":">>
        \o str_int(limit_down_count) \o <<"(">> \o str_int(non_main_down) \o <<")", "+">>
        \o str_int(not_limit_down)

\* the f-strings of the 涨跌停比
up_down_rate_of(limit_up_count, non_main_up, not_limit_up, limit_down_count, non_main_down, not_limit_down) ==
    IF non_main_down > 0
    THEN str_int(limit_up_count) \o <<"(">> \o str_int(non_main_up) \o <<")", "+">>
            \o str_int(not_limit_up) \o <<":">>
            \o str_int(limit_down_count) \o <<"(">> \o str_int(non_main_down) \o <<")", "+">>
            \o str_int(not_limit_down)
    ELSE str_int(limit_up_count) \o <<"(">> \o str_int(non_main_up) \o <<")", "+">>
            \o str_int(not_limit_up) \o <<":">>
            \o str_int(limit_down_count) \o <<"+">> \o str_int(not_limit_down)

\* per-board counts of a pool: board_limit_stats[board][key] for the four boards
counts_by_board(rows) ==
    [b \in {Boards[i] : i \in 1..Len(Boards)} |-> count_board(rows, b)]

\* the first inner try block: the limit-up pool, the 连板 count and the
\* exploded pool.  A local that was never assigned is None (unbound).
limit_up_block(up, zb) ==
    LET nothing == [limit_up_count |-> 0, exploded_count |-> 0,
                    up_by_board |-> None, zb_by_board |-> None,
                    greater_than_ten_of_limit_up |-> None,
                    consecutive_limit_ups |-> None]
    IN  IF up.kind = "raise" THEN nothing
        ELSE IF up.kind = "bare" THEN nothing   \* KeyError: '连板数'
        ELSE
        LET after_up ==
                IF up.rows # <<>>
                THEN [nothing EXCEPT
                        !.limit_up_count = Len(up.rows),
                        !.up_by_board = Some(counts_by_board(up.rows)),
                        !.greater_than_ten_of_limit_up = Some(count_non_main(up.rows))]
                ELSE nothing
            after_consecutive ==
                [after_up EXCEPT !.consecutive_limit_ups =
                    Some(count_days_from(up.rows, 2))]
        IN  IF zb.kind = "raise" THEN after_consecutive
            ELSE IF zb.rows # <<>>
            THEN [after_consecutive EXCEPT
                    !.exploded_count = Len(zb.rows),
                    !.zb_by_board = Some(counts_by_board(zb.rows))]
            ELSE after_consecutive

\* the second inner try block: the limit-down pool
limit_down_block(down) ==
    IF down.kind = "raise" \/ down.rows = <<>>
    THEN [limit_down_count |-> 0, down_by_board |-> None,
          greater_than_ten_of_limit_down |-> None]
    ELSE [limit_down_count |-> Len(down.rows),
          down_by_board |-> Some(counts_by_board(down.rows)),
          greater_than_ten_of_limit_down |-> Some(count_non_main(down.rows))]

\* the boards that have rows in the snapshot: the keys of board_stats
boards_with_data(stock_data) == {q.board : q \in {stock_data[i] : i \in 1..Len(stock_data)}}

\* board_stats[board] of the board loop
board_stats_of(stock_data, b, ups, downs) ==
    LET board_data == board_rows(stock_data, b)
        up_count == count_over(board_data, 0)
        down_count == count_under(board_data, 0)
        flat_count == count_flat(board_data)
        total_board_stocks == up_count + down_count + flat_count
        in_limit_stats == ups.up_by_board # None \/ ups.zb_by_board # None
                            \/ downs.down_by_board # None
        limit_up_board == IF ups.up_by_board # None THEN ups.up_by_board.v[b] ELSE 0
        exploded_board == IF ups.zb_by_board # None THEN ups.zb_by_board.v[b] ELSE 0
    IN  [total |-> total_board_stocks, up |-> up_count, down |-> down_count,
         flat |-> flat_count,
         money_effect |-> money_effect_of(up_count, total_board_stocks),
         limit_up |-> IF ups.up_by_board # None THEN Some(ups.up_by_board.v[b]) ELSE None,
         exploded |-> IF ups.zb_by_board # None THEN Some(ups.zb_by_board.v[b]) ELSE None,
         limit_down |-> IF downs.down_by_board # None THEN Some(downs.down_by_board.v[b]) ELSE None,
         exploded_rate |-> IF in_limit_stats
                           THEN Some(exploded_rate_of(limit_up_board, exploded_board))
                           ELSE None]

\* the rows of the 科创板 and 创业板 above 10%, less the boards' own
\* limit-up counts; a board without rows adds nothing
over_ten_not_limit_up(stock_data, by_board) ==
    LET term(b) == IF board_rows(stock_data, b) = <<>> THEN 0
                   ELSE count_over(board_rows(stock_data, b), 10) - by_board[b]
    IN  term("SciTechBoard") + term("GrowthBoard")

\* the rows of the 科创板 and 创业板 below -10%, less the boards' own
\* limit-down counts
over_ten_not_limit_down(stock_data, by_board) ==
    LET term(b) == IF board_rows(stock_data, b) = <<>> THEN 0
                   ELSE count_under(board_rows(stock_data, b), -10) - by_board[b]
    IN  term("SciTechBoard") + term("GrowthBoard")

\* whether the board loop raises KeyError: a 科创板 or 创业板 with rows reads
\* board_limit_stats[board]['涨停数量'] and ['跌停数量']
board_loop_raises(stock_data, ups, downs) ==
    /\ \E b \in {"SciTechBoard", "GrowthBoard"} : board_rows(stock_data, b) # <<>>
    /\ ups.up_by_board = None \/ downs.down_by_board = None

\* a plausible slip: the emptiness check left out
snapshot_check_missing(stock_data) == FALSE

\* `if stock_data.empty: return {}`
snapshot_is_empty(stock_data) == stock_data = <<>>

\* total_amount and sz_amount_rate read sz_index.iloc[0] and iloc[1]:
\* IndexError with fewer than two rows, before any pool is asked
index_lookup_raises(sz_index) == Len(sz_index) < 2

\* the statements after the index lookups, inside the outer try block
aggregate(sz_index, stock_data, up, zb, down) ==
    LET ups == limit_up_block(up, zb)
        downs == limit_down_block(down)
    IN  IF board_loop_raises(stock_data, ups, downs) THEN EmptyDict
        ELSE IF downs.greater_than_ten_of_limit_down = None THEN EmptyDict  \* unbound local
        ELSE IF ups.greater_than_ten_of_limit_up = None THEN EmptyDict      \* unbound local
        ELSE IF ups.consecutive_limit_ups = None THEN EmptyDict             \* unbound local
        ELSE
        LET up_count == count_over(stock_data, 0)
            down_count == count_under(stock_data, 0)
            flat_count == count_flat(stock_data)
            not_limit_up == over_ten_not_limit_up(stock_data, ups.up_by_board.v)
            not_limit_down == over_ten_not_limit_down(stock_data, downs.down_by_board.v)
        IN  [empty |-> FALSE,
             total_amount |-> (sz_index[1].amount + sz_index[2].amount) \div (10 ^ 8),
             sz_change |-> sz_index[1].pct,
             sz_amount_rate |-> sz_index[1].ratio,
             up_down_rate |-> up_down_rate_of(
                 ups.limit_up_count, ups.greater_than_ten_of_limit_up.v, not_limit_up,
                 downs.limit_down_count, downs.greater_than_ten_of_limit_down.v,
                 not_limit_down),
             limit_up_count |-> ups.limit_up_count,
             greater_than_ten_of_limit_up |-> ups.greater_than_ten_of_limit_up.v,
             greater_than_ten_of_not_limit_up |-> not_limit_up,
             limit_down_count |-> downs.limit_down_count,
             greater_than_ten_of_limit_down |-> downs.greater_than_ten_of_limit_down.v,
             greater_than_ten_of_not_limit_down |-> not_limit_down,
             consecutive_limit_ups |-> ups.consecutive_limit_ups.v,
             up_count |-> up_count, down_count |-> down_count, flat_count |-> flat_count,
             money_effect |-> money_effect_of(up_count, up_count + down_count + flat_count),
             exploded_rate |-> exploded_rate_of(ups.limit_up_count, ups.exploded_count),
             board_stats |-> [b \in boards_with_data(stock_data) |->
                                 board_stats_of(stock_data, b, ups, downs)]]

(***************************************************************************)
(* Decline analysis (get_decline_analysis).                                *)
(***************************************************************************)
\* the rank read by declining_stocks.iloc[59]
DECLINE_RANK == 60

\* DataFrame.sort_values('涨跌幅'): ascending by percent change, the rows
\* with the smallest change first, then the others in the same way
RECURSIVE sort_values(_)
sort_values(rows) ==
    IF rows = <<>> THEN <<>>
    ELSE LET changes == {rows[i].pct.v : i \in 1..Len(rows)}
             smallest == CHOOSE v \in changes : \A u \in changes : v <= u
         IN  SelectSeq(rows, LAMBDA r : r.pct.v = smallest)
             \o sort_values(SelectSeq(rows, LAMBDA r : r.pct.v # smallest))

\* a plausible slip: flat rows counted among the declining ones
declining_stocks_with_flat(stock_data) ==
    sort_values(SelectSeq(stock_data, LAMBDA q : pct_lt(q, 1)))

\* stock_data[stock_data['涨跌幅'] < 0].sort_values('涨跌幅')
declining_stocks(stock_data) ==
    sort_values(SelectSeq(stock_data, LAMBDA q : pct_lt(q, 0)))

\* the dictionary get_decline_analysis returns for a snapshot
get_decline_analysis(stock_data) ==
    IF stock_data = <<>> THEN EmptyDict
    ELSE LET declining == declining_stocks(stock_data)
         IN  [empty |-> FALSE,
              decline_60th |-> IF Len(declining) >= DECLINE_RANK
                               THEN Some(declining[DECLINE_RANK].pct.v)
                               ELSE None]

(***************************************************************************)
(* Intraday extremes (get_intraday_extremes).                              *)
(***************************************************************************)
\* a snapshot row with the prices the analysis reads: 最新价, 最低 and 最高,
\* in cents
PricedQuote(c, price, low, high) ==
    [code |-> c, pct |-> Some(0), price |-> price, low |-> low, high |-> high]

\* board_thresholds, in hundredths of a percent
board_thresholds ==
    [b \in Segments |-> CASE b = "MainBoard" -> 1500
                          [] b = "SciTechBoard" -> 2500
                          [] b = "GrowthBoard" -> 2500
                          [] b = "BeijingExchange" -> 3500]

\* how many rows nlargest and nsmallest keep
TOP_N == 5

\* the two assignments stock_data['收盘较最低涨幅'] = ... and
\* stock_data['收盘较最高跌幅'] = ...: two new columns on the same table
with_extremes(rows) ==
    [i \in 1..Len(rows) |->
        [f \in (DOMAIN rows[i]) \cup {"gain_from_low", "drop_from_high"} |->
            IF f = "gain_from_low"
            THEN round2_pct(rows[i].price - rows[i].low, rows[i].low)
            ELSE IF f = "drop_from_high"
            THEN round2_pct(rows[i].price - rows[i].high, rows[i].high)
            ELSE rows[i][f]]]

\* the position of the first row with the largest gain_from_low
first_largest(rows) ==
    CHOOSE i \in 1..Len(rows) :
        /\ \A j \in 1..Len(rows) : rows[j].gain_from_low <= rows[i].gain_from_low
        /\ \A j \in 1..(i - 1) : rows[j].gain_from_low < rows[i].gain_from_low

\* the position of the first row with the smallest drop_from_high
first_smallest(rows) ==
    CHOOSE i \in 1..Len(rows) :
        /\ \A j \in 1..Len(rows) : rows[j].drop_from_high >= rows[i].drop_from_high
        /\ \A j \in 1..(i - 1) : rows[j].drop_from_high > rows[i].drop_from_high

without(rows, i) == SubSeq(rows, 1, i - 1) \o SubSeq(rows, i + 1, Len(rows))

\* DataFrame.nlargest(n, '收盘较最低涨幅')
RECURSIVE nlargest(_, _)
nlargest(n, rows) ==
    IF n = 0 \/ rows = <<>> THEN <<>>
    ELSE LET i == first_largest(rows)
         IN  <<rows[i]>> \o nlargest(n - 1, without(rows, i))

\* DataFrame.nsmallest(n, '收盘较最高跌幅')
RECURSIVE nsmallest(_, _)
nsmallest(n, rows) ==
    IF n = 0 \/ rows = <<>> THEN <<>>
    ELSE LET i == first_smallest(rows)
         IN  <<rows[i]>> \o nsmallest(n - 1, without(rows, i))

\* the boards the loop does not `continue` past: those with rows
boards_reported(stock_data) ==
    {b \in Segments : board_rows(stock_data, b) # <<>>}

\* the two lists of one board
board_extremes(stock_data, b) ==
    LET board_data == board_rows(stock_data, b)
        threshold == board_thresholds[b]
        filtered_gainers == SelectSeq(board_data, LAMBDA q : q.gain_from_low > threshold)
        filtered_losers == SelectSeq(board_data, LAMBDA q : q.drop_from_high < 0 - threshold)
    IN  [top_low_gainers |-> nlargest(TOP_N, filtered_gainers),
         top_high_losers |-> nsmallest(TOP_N, filtered_losers)]

\* the dictionary get_intraday_extremes returns for the table with the two
\* columns: one pair of lists for each board reported
get_intraday_extremes(stock_data) ==
    [b \in boards_reported(stock_data) |-> board_extremes(stock_data, b)]

(***************************************************************************)
(* Yesterday's limit-up stocks today (get_yesterday_performance).          *)
(***************************************************************************)
\* today_dict = {row['代码']: row ...}: the codes of the snapshot, and the
\* row a code leads to, the last one where a code repeats
today_codes(today_data) == {today_data[i].code : i \in 1..Len(today_data)}

today_dict(today_data, c) ==
    today_data[CHOOSE i \in 1..Len(today_data) :
                   /\ today_data[i].code = c
                   /\ \A j \in (i + 1)..Len(today_data) : today_data[j].code # c]

\* a plausible slip: every cohort entry is kept, absent codes reading NaN
performance_unjoined(cohort, today_data) ==
    [i \in 1..Len(cohort) |->
        [code |-> cohort[i].code,
         today_pct |-> IF cohort[i].code \in today_codes(today_data)
                       THEN today_dict(today_data, cohort[i].code).pct ELSE None]]

\* the list `performance`: one entry for each cohort row whose code is in
\* today_dict, with 今日涨幅 read from the snapshot
performance_of(cohort, today_data) ==
    LET joined == SelectSeq(cohort, LAMBDA s : s.code \in today_codes(today_data))
    IN  [i \in 1..Len(joined) |->
            [code |-> joined[i].code,
             today_pct |-> today_dict(today_data, joined[i].code).pct]]

RECURSIVE sum_pct(_)
sum_pct(values) == IF values = <<>> THEN 0 ELSE Head(values).v + sum_pct(Tail(values))

\* round(x, 2) of the quotient n / d, in hundredths
round2_quot(n, d) == round2_pct(n, 100 * d)

\* round(df['今日涨幅'].mean(), 2): the mean skips NaN, and is NaN when
\* nothing is left
mean_today(performance) ==
    LET known == SelectSeq([i \in 1..Len(performance) |-> performance[i].today_pct],
                           LAMBDA p : p # None)
    IN  IF known = <<>> THEN None ELSE Some(round2_quot(sum_pct(known), Len(known)))

\* round(len(df[df['今日涨幅'] > 0]) / len(df) * 100, 2)
up_ratio_of(performance) ==
    round2_pct(Cardinality({i \in 1..Len(performance) :
                               /\ performance[i].today_pct # None
                               /\ performance[i].today_pct.v > 0}),
               Len(performance))

\* the inner try: the exploded pool of the day before joined with the
\* snapshot; sum()/len() of the joined changes, NaN when one is NaN, and 0
\* when nothing joins or anything raises
exploded_avg_of(exploded, today_data) ==
    IF exploded.kind = "raise" THEN Some(0)
    ELSE LET joined == SelectSeq(exploded.rows,
                                 LAMBDA s : s.code \in today_codes(today_data))
             changes == [i \in 1..Len(joined) |-> today_dict(today_data, joined[i].code).pct]
         IN  IF changes = <<>> THEN Some(0)
             ELSE IF \E i \in 1..Len(changes) : changes[i] = None THEN None
             ELSE Some(round2_quot(sum_pct(changes), Len(changes)))

\* the dictionaries with the single key 昨日涨停股表现
Marker(text) == [marker |-> text]

\* the dictionary get_yesterday_performance returns once the cohort has
\* arrived and has rows
yesterday_performance_of(cohort, today_data, exploded) ==
    LET performance == performance_of(cohort, today_data)
    IN  IF performance # <<>>
        THEN [yesterday_limit_count |-> Len(performance),
              today_avg |-> mean_today(performance),
              today_up_ratio |-> up_ratio_of(performance),
              exploded_today_avg |-> exploded_avg_of(exploded, today_data)]
        ELSE Marker("no valid data")

(***************************************************************************)
(* Dates and the daily records (save_results, load_historical_data).       *)
(***************************************************************************)
\* the calendar date of the day z days after 1970-01-01 (datetime over the
\* proleptic Gregorian calendar)
civil_from_days(z) ==
    LET z1 == z + 719468
        era == z1 \div 146097
        doe == z1 - era * 146097
        yoe == (doe - doe \div 1460 + doe \div 36524 - doe \div 146096) \div 365
        doy == doe - (365 * yoe + yoe \div 4 - yoe \div 100)
        mp == (5 * doy + 2) \div 153
        m == IF mp < 10 THEN mp + 3 ELSE mp - 9
    IN  [year |-> yoe + era * 400 + (IF m <= 2 THEN 1 ELSE 0),
         month |-> m,
         day |-> doy - (153 * mp + 2) \div 5 + 1]

\* the decimal digits of n, padded with zeros on the left to width w
RECURSIVE zero_padded(_, _)
zero_padded(n, w) ==
    IF w = 0 THEN <<>> ELSE Append(zero_padded(n \div 10, w - 1), Digit(n % 10))

\* a plausible slip: the hour of the day made part of the key
strftime_ymd_hour(t) ==
    LET z == t \div SECONDS_PER_DAY
        d == civil_from_days(z)
    IN  zero_padded(d.year, 4) \o zero_padded(d.month, 2) \o zero_padded(d.day, 2)
            \o zero_padded((t % SECONDS_PER_DAY) \div 3600, 2)

\* datetime.strftime('%Y%m%d') of the time t, in seconds since 1970-01-01
strftime_ymd(t) ==
    LET d == civil_from_days(t \div SECONDS_PER_DAY)
    IN  zero_padded(d.year, 4) \o zero_padded(d.month, 2) \o zero_padded(d.day, 2)

\* f"{self.data_dir}/ashare_analysis_{date}.json"
filename_of(date) == <<"data/ashare_analysis_">> \o date \o <<".json">>

\* JSON values: null, numbers (m / 10^e), strings (sequences of
\* characters), lists and dictionaries (functions of their keys)
JNull == [t |-> "null"]
JNum(m, e) == [t |-> "num", m |-> m, e |-> e]
JStr(s) == [t |-> "str", s |-> s]
JList(items) == [t |-> "list", items |-> items]
JDict(d) == [t |-> "dict", d |-> d]

\* what a file holds: text that json.load rejects, or a JSON value
Unparseable == [kind |-> "unparseable"]
Parsed(j) == [kind |-> "json", value |-> j]

\* os.path.exists(filename)
exists(files, filename) == filename \in DOMAIN files

\* the files after filename has been written with content
written(files, filename, content) ==
    [f \in (DOMAIN files) \cup {filename} |-> IF f = filename THEN content ELSE files[f]]

\* save_results: the files after the call.  open(filename, 'w') fails and
\* leaves the files alone, or it empties the file and json.dump either
\* fails part way or writes data_to_save
save_results(files, date, time, results, outcome) ==
    IF outcome = "open fails" THEN files
    ELSE IF outcome = "dump fails" THEN written(files, filename_of(date), Unparseable)
    ELSE written(files, filename_of(date),
                 Parsed(JDict([date |-> JStr(date), analysis_time |-> JNum(time, 0),
                               results |-> results])))

\* len(x) where x is a JSON value: None where len raises
len_of(j) ==
    CASE j.t = "str" -> Some(Len(j.s))
      [] j.t = "list" -> Some(Len(j.items))
      [] j.t = "dict" -> Some(Cardinality(DOMAIN j.d))
      [] OTHER -> None

\* d.get(key, {}) of a dictionary
get_or_empty(j, key) == IF key \in DOMAIN j.d THEN j.d[key] ELSE JDict(<<>>)

\* load_historical_data: None when the file is missing, when json.load
\* raises, and when the log line's len(data.get('results', {})) raises
load_historical_data(files, date) ==
    IF ~exists(files, filename_of(date)) THEN None
    ELSE LET content == files[filename_of(date)]
         IN  IF content.kind = "unparseable" THEN None
             ELSE IF content.value.t # "dict" THEN None
             ELSE IF len_of(get_or_empty(content.value, "results")) = None THEN None
             ELSE Some(content.value)

(***************************************************************************)
(* The historical summary (get_historical_summary).                        *)
(*                                                                         *)
(* The keys of the stored dictionaries are named in English: market_stats  *)
(* 市场统计, yesterday_perf 昨日涨停股表现, limit_up_count 涨停数量,        *)
(* limit_down_count 跌停数量, money_effect 赚钱效应, up_down_rate 涨跌停比,  *)
(* total_amount 总成交额, sz_amount_rate 上证量比, sz_change 上证指数涨幅,   *)
(* exploded_rate 炸板率, yesterday_limit_count 昨日涨停股数量, today_avg     *)
(* 今日平均表现, today_up_ratio 今日上涨比例, exploded_today_avg            *)
(* 昨日炸板股今日平均.  A string that holds the text of a key holds it as   *)
(* one element; "Y" is the character 亿.                                   *)
(***************************************************************************)
\* for i in range(30)
LOOKBACK_DAYS == 30

\* bool(x) of a JSON value
truthy(j) ==
    CASE j.t = "null" -> FALSE
      [] j.t = "num" -> j.m # 0
      [] j.t = "str" -> j.s # <<>>
      [] j.t = "list" -> j.items # <<>>
      [] j.t = "dict" -> DOMAIN j.d # {}

\* the expression `key in x` is evaluated without a TypeError
in_defined(j) == j.t \in {"str", "list", "dict"}

\* a plausible slip: the keys of the dictionary are not looked at
key_in_ignored(key, j) == TRUE

\* key in x: a key of a dictionary, an element of a list, a part of a string
key_in(key, j) ==
    CASE j.t = "dict" -> key \in DOMAIN j.d
      [] j.t = "list" -> \E i \in 1..Len(j.items) : j.items[i] = JStr(<<key>>)
      [] j.t = "str" -> \E i \in 1..Len(j.s) : j.s[i] = key

\* x.get(key, default) where x is a dictionary
get_or(j, key, default) == IF key \in DOMAIN j.d THEN j.d[key] ELSE default

\* str.replace(ch, ''): s without the character ch
without_char(s, ch) == SelectSeq(s, LAMBDA c : c # ch)

\* str.strip(): s without the blanks at its ends
RECURSIVE strip(_)
strip(s) ==
    IF s = <<>> THEN s
    ELSE IF Head(s) = " " THEN strip(Tail(s))
    ELSE IF s[Len(s)] = " " THEN strip(SubSeq(s, 1, Len(s) - 1))
    ELSE s

RECURSIVE digits_value(_)
digits_value(s) ==
    IF s = <<>> THEN 0
    ELSE 10 * digits_value(SubSeq(s, 1, Len(s) - 1))
         + (CHOOSE d \in 0..9 : Digit(d) = s[Len(s)])

\* float(s) for strings of digits, '.', '-', blanks and characters no
\* number has: None for ValueError, else the number as m / 10^e
float_of(s) ==
    LET t == strip(s)
        negative == t # <<>> /\ Head(t) = "-"
        body == IF negative THEN Tail(t) ELSE t
        dots == {i \in 1..Len(body) : body[i] = "."}
        digits == without_char(body, ".")
    IN  IF \/ digits = <<>>
           \/ Cardinality(dots) > 1
           \/ \E i \in 1..Len(digits) : \A d \in 0..9 : Digit(d) # digits[i]
        THEN None
        ELSE Some(JNum((IF negative THEN -1 ELSE 1) * digits_value(digits),
                       IF dots = {} THEN 0 ELSE Len(body) - (CHOOSE i \in dots : TRUE)))

\* a plausible slip: the unit suffixes are not taken off
safe_extract_number_plain(value) ==
    CASE value.t = "null" -> JNum(0, 0)
      [] value.t = "num" -> value
      [] value.t = "str" -> IF float_of(value.s) = None THEN JNum(0, 0)
                            ELSE float_of(value.s).v
      [] OTHER -> JNum(0, 0)

\* safe_extract_number(value) with the default 0
safe_extract_number(value) ==
    CASE value.t = "null" -> JNum(0, 0)
      [] value.t = "num" -> value
      [] value.t = "str" ->
            LET text == IF \E i \in 1..Len(value.s) : value.s[i] = "%"
                        THEN without_char(value.s, "%")
                        ELSE IF \E i \in 1..Len(value.s) : value.s[i] = "Y"
                        THEN without_char(value.s, "Y")
                        ELSE value.s
            IN  IF float_of(text) = None THEN JNum(0, 0) ELSE float_of(text).v
      [] OTHER -> JNum(0, 0)

\* a plausible slip: a day counts as complete when either part is there
day_summary_of_either(date, market_stats, yesterday_perf, has_market_data, has_yesterday_data) ==
    [date |-> date,
     limit_up_count |-> safe_extract_number(get_or(market_stats, "limit_up_count", JNum(0, 0))),
     limit_down_count |-> safe_extract_number(get_or(market_stats, "limit_down_count", JNum(0, 0))),
     up_down_ratio |-> get_or(market_stats, "up_down_rate", JStr(<<"N", "/", "A">>)),
     total_amount |-> safe_extract_number(get_or(market_stats, "total_amount", JNum(0, 0))),
     sz_amount_rate |-> safe_extract_number(get_or(market_stats, "sz_amount_rate", JNum(0, 0))),
     sz_index_change |-> safe_extract_number(get_or(market_stats, "sz_change", JNum(0, 0))),
     money_effect |-> safe_extract_number(get_or(market_stats, "money_effect", JNum(0, 0))),
     exploded_rate |-> safe_extract_number(get_or(market_stats, "exploded_rate", JNum(0, 0))),
     yesterday_limit_count |-> safe_extract_number(get_or(yesterday_perf, "yesterday_limit_count", JNum(0, 0))),
     yesterday_avg_perf |-> safe_extract_number(get_or(yesterday_perf, "today_avg", JNum(0, 0))),
     yesterday_up_ratio |-> safe_extract_number(get_or(yesterday_perf, "today_up_ratio", JNum(0, 0))),
     exploded_avg_perf |-> safe_extract_number(get_or(yesterday_perf, "exploded_today_avg", JNum(0, 0))),
     has_valid_data |-> has_market_data \/ has_yesterday_data]

\* the dictionary day_summary
day_summary_of(date, market_stats, yesterday_perf, has_market_data, has_yesterday_data) ==
    [date |-> date,
     limit_up_count |-> safe_extract_number(get_or(market_stats, "limit_up_count", JNum(0, 0))),
     limit_down_count |-> safe_extract_number(get_or(market_stats, "limit_down_count", JNum(0, 0))),
     up_down_ratio |-> get_or(market_stats, "up_down_rate", JStr(<<"N", "/", "A">>)),
     total_amount |-> safe_extract_number(get_or(market_stats, "total_amount", JNum(0, 0))),
     sz_amount_rate |-> safe_extract_number(get_or(market_stats, "sz_amount_rate", JNum(0, 0))),
     sz_index_change |-> safe_extract_number(get_or(market_stats, "sz_change", JNum(0, 0))),
     money_effect |-> safe_extract_number(get_or(market_stats, "money_effect", JNum(0, 0))),
     exploded_rate |-> safe_extract_number(get_or(market_stats, "exploded_rate", JNum(0, 0))),
     yesterday_limit_count |-> safe_extract_number(get_or(yesterday_perf, "yesterday_limit_count", JNum(0, 0))),
     yesterday_avg_perf |-> safe_extract_number(get_or(yesterday_perf, "today_avg", JNum(0, 0))),
     yesterday_up_ratio |-> safe_extract_number(get_or(yesterday_perf, "today_up_ratio", JNum(0, 0))),
     exploded_avg_perf |-> safe_extract_number(get_or(yesterday_perf, "exploded_today_avg", JNum(0, 0))),
     has_valid_data |-> has_market_data /\ has_yesterday_data]

\* the body of `if data and 'results' in data:` for one date: the call
\* raises, or the date gives an entry, or it gives none
day_entry(date, data) ==
    LET results == data.d.results
        market_stats == get_or(results, "market_stats", JDict(<<>>))
        yesterday_perf == get_or(results, "yesterday_perf", JDict(<<>>))
        has_market_data ==
            /\ truthy(market_stats)
            /\ \E k \in {"limit_up_count", "limit_down_count", "money_effect"} :
                   key_in(k, market_stats)
        has_yesterday_data ==
            /\ truthy(yesterday_perf)
            /\ key_in("yesterday_limit_count", yesterday_perf)
    IN  IF results.t # "dict" THEN [raised |-> TRUE]
        ELSE IF truthy(market_stats) /\ ~in_defined(market_stats) THEN [raised |-> TRUE]
        ELSE IF truthy(yesterday_perf) /\ ~in_defined(yesterday_perf) THEN [raised |-> TRUE]
        ELSE IF ~(has_market_data \/ has_yesterday_data)
        THEN [raised |-> FALSE, entry |-> None]
        ELSE IF market_stats.t # "dict" \/ yesterday_perf.t # "dict" THEN [raised |-> TRUE]
        ELSE [raised |-> FALSE,
              entry |-> Some(day_summary_of(date, market_stats, yesterday_perf,
                                            has_market_data, has_yesterday_data))]

\* date == today_str and current_results
uses_current_results(date, today_str, current_results) ==
    /\ date = today_str
    /\ current_results # None
    /\ truthy(current_results.v)

\* a plausible slip: the search stops one entry late
enough_collected_late(summary, max_days) == Len(summary) > max_days

\* if len(summary) >= max_days: break
enough_collected(summary, max_days) == Len(summary) >= max_days

\* the loop of get_historical_summary from its i-th round on.  call holds
\* the files, the time of the call, max_days and current_results; acc holds
\* the summary, the dates examined and the dates loaded from the files
RECURSIVE summary_from(_, _, _)
summary_from(call, i, acc) ==
    IF i >= LOOKBACK_DAYS \/ enough_collected(acc.summary, call.max_days)
    THEN [raised |-> FALSE, summary |-> acc.summary,
          examined |-> acc.examined, loaded |-> acc.loaded]
    ELSE LET date == strftime_ymd(call.time - i * SECONDS_PER_DAY)
             override == uses_current_results(date, strftime_ymd(call.time),
                                              call.current_results)
             data == IF override THEN Some(JDict([results |-> call.current_results.v]))
                     ELSE load_historical_data(call.files, date)
             seen == [summary |-> acc.summary,
                      examined |-> Append(acc.examined, date),
                      loaded |-> IF override THEN acc.loaded ELSE Append(acc.loaded, date)]
         IN  IF data = None \/ ~truthy(data.v) \/ "results" \notin DOMAIN data.v.d
             THEN summary_from(call, i + 1, seen)
             ELSE LET day == day_entry(date, data.v)
                  IN  IF day.raised
                      THEN [raised |-> TRUE, examined |-> seen.examined,
                            loaded |-> seen.loaded]
                      ELSE IF day.entry = None THEN summary_from(call, i + 1, seen)
                      ELSE summary_from(call, i + 1,
                                        [seen EXCEPT !.summary = Append(@, day.entry.v)])

\* get_historical_summary(max_days, current_results) at the time of the call
get_historical_summary(files, time, max_days, current_results) ==
    summary_from([files |-> files, time |-> time, max_days |-> max_days,
                  current_results |-> current_results],
                 0, [summary |-> <<>>, examined |-> <<>>, loaded |-> <<>>])

\* str(x) of a float with at most two decimals, given in hundredths: the
\* shortest digits that give x back, with at least one decimal
str_float2(h) ==
    LET a == IF h < 0 THEN -h ELSE h
        frac == IF a % 10 = 0 THEN <<Digit((a % 100) \div 10)>>
                ELSE <<Digit((a % 100) \div 10), Digit(a % 10)>>
    IN  (IF h < 0 THEN <<"-">> ELSE <<>>) \o str_nat(a \div 100) \o <<".">> \o frac

(***************************************************************************)
(* The yearly workbook (save_to_excel) and the steps of main().            *)
(***************************************************************************)
\* datetime.now().year
year_of(t) == civil_from_days(t \div SECONDS_PER_DAY).year

\* datetime.strftime('%Y/%m/%d')
strftime_slash(t) ==
    LET d == civil_from_days(t \div SECONDS_PER_DAY)
    IN  zero_padded(d.year, 4) \o <<"/">> \o zero_padded(d.month, 2)
            \o <<"/">> \o zero_padded(d.day, 2)

\* f"复盘记录{year}.xlsx"
workbook_name(year) == <<"review_record_">> \o str_nat(year) \o <<".xlsx">>

\* what a workbook file holds: the rows of its active sheet, or bytes that
\* load_workbook rejects
Sheet(rows) == [kind |-> "xlsx", rows |-> rows]
BrokenWorkbook == [kind |-> "broken"]

\* safe_extract_value(value) with the default ''
safe_extract_value(value) ==
    CASE value.t = "null" -> JStr(<<>>)
      [] value.t = "num" -> value
      [] value.t = "str" ->
            IF \E i \in 1..Len(value.s) : value.s[i] = "%"
            THEN LET f == float_of(without_char(value.s, "%"))
                 IN  IF f = None THEN value ELSE f.v
            ELSE IF \E i \in 1..Len(value.s) : value.s[i] = "Y"
            THEN LET f == float_of(without_char(value.s, "Y"))
                 IN  IF f = None THEN value ELSE f.v
            ELSE value
      [] OTHER -> value

\* the first row of a new sheet; of the eleven columns the model keeps the
\* date (日期) and the streak count (连板数量)
headers == [date |-> JStr(<<"date">>), streak |-> JStr(<<"streak">>)]

\* row_data, built when the clock reads t
row_data(results, t) ==
    LET market_stats == get_or(results, "market_stats", JDict(<<>>))
    IN  [date |-> JStr(strftime_slash(t)),
         streak |-> safe_extract_value(get_or(market_stats, "streak_count", JStr(<<>>)))]

\* the loop over ws.iter_rows(min_row=2, max_col=1, values_only=True)
has_row_for(rows, today_str) ==
    \E i \in 2..Len(rows) : rows[i].date = JStr(today_str)

\* wb.save(filename): the file is written, or cannot be opened for writing
\* and stays as it was, or is left cut short
wb_save(files, filename, rows, outcome) ==
    IF outcome = "save refused" THEN files
    ELSE IF outcome = "save cut short" THEN written(files, filename, BrokenWorkbook)
    ELSE written(files, filename, Sheet(rows))

\* save_to_excel: the workbooks after the call.  The clock is read three
\* times: t_year for the file name, t_row for the date of the row and
\* t_check for the date looked for among the rows
save_to_excel(files, results, t_year, t_row, t_check, outcome) ==
    LET filename == workbook_name(year_of(t_year))
        row == row_data(results, t_row)
        today_str == strftime_slash(t_check)
    IN  IF exists(files, filename)
        THEN IF files[filename].kind = "broken" THEN files
             ELSE IF has_row_for(files[filename].rows, today_str) THEN files
             ELSE wb_save(files, filename, Append(files[filename].rows, row), outcome)
        ELSE wb_save(files, filename, <<headers, row>>, outcome)

\* a plausible slip: the exception of a failed write is let through
save_results_raises_uncaught(outcome) == outcome # "ok"

\* save_results raises: never, the except clause takes every Exception
save_results_raises(outcome) == FALSE

\* main(): the statement that follows the call at `at`; an exception goes
\* to the except clause, which raises it again
main_next(at, raised) ==
    IF raised THEN "raised"
    ELSE CASE at = "run_analysis" -> "save_results"
           [] at = "save_results" -> "save_to_excel"
           [] at = "save_to_excel" -> "display"
           [] at = "display" -> "done"

(***************************************************************************)
(* The analyzer as a state machine.                                        *)
(***************************************************************************)
ClassifierIdle == code = <<>> /\ board = "idle"

CacheInit ==
    /\ now = 0
    /\ cached_stock_data = None
    /\ cache_timestamp = None
    /\ ticks = 0
    /\ calls = 0
    /\ provider_calls = 0
    /\ ever_ok = FALSE
    /\ last = None

\* an analyzer made at time 0: no snapshot analysis has run, no record is
\* stored, nothing was saved and no summary was built
OthersIdle ==
    /\ report = None
    /\ today = strftime_ymd(0)
    /\ store = <<>>
    /\ history = None

\* main() is not running and no workbook has been written
MainIdle ==
    /\ pc = "idle"
    /\ run_results = None
    /\ excel = <<>>
    /\ log = <<>>

mainVars == <<pc, run_results, excel, log>>

cacheVars == <<now, cached_stock_data, cache_timestamp, ticks, calls,
               provider_calls, ever_ok, last>>

\* the steps by which the clock moves between calls: under and at the
\* window, an hour, a day less the window, a day
ClockSteps == {299, 300, 3600, 86100, 86400}

Tick ==
    /\ ticks < MaxTicks
    /\ \E d \in ClockSteps : now' = now + d
    /\ ticks' = ticks + 1
    /\ UNCHANGED <<code, board, cached_stock_data, cache_timestamp, calls,
                   provider_calls, ever_ok, last, stats, report, today, store, history, mainVars>>

\* one get_stock_data_with_board call and its effect on the analyzer
CallGetStockData(force_refresh, prov) ==
    LET r == get_stock_data_with_board(force_refresh, cached_stock_data,
                                       cache_timestamp, now, prov)
    IN  /\ cached_stock_data' = r.data
        /\ cache_timestamp' = r.ts
        /\ provider_calls' = provider_calls + (IF r.called THEN 1 ELSE 0)
        /\ ever_ok' = (ever_ok \/ r.path = "stored")
        /\ last' = Some([force |-> force_refresh, prov |-> prov, at |-> now,
                         pre_data |-> cached_stock_data,
                         pre_ts |-> cache_timestamp,
                         pre_ok |-> ever_ok,
                         pre_calls |-> provider_calls,
                         ret |-> r.ret, called |-> r.called,
                         raised |-> r.raised, path |-> r.path])
        /\ calls' = calls + 1

\* the same call where the caller goes on to write to the table returned:
\* everything but the cached table, which the caller's action settles
CallRecorded(force_refresh, prov) ==
    LET r == get_stock_data_with_board(force_refresh, cached_stock_data,
                                       cache_timestamp, now, prov)
    IN  /\ cache_timestamp' = r.ts
        /\ provider_calls' = provider_calls + (IF r.called THEN 1 ELSE 0)
        /\ ever_ok' = (ever_ok \/ r.path = "stored")
        /\ last' = Some([force |-> force_refresh, prov |-> prov, at |-> now,
                         pre_data |-> cached_stock_data,
                         pre_ts |-> cache_timestamp,
                         pre_ok |-> ever_ok,
                         pre_calls |-> provider_calls,
                         ret |-> r.ret, called |-> r.called,
                         raised |-> r.raised, path |-> r.path])
        /\ calls' = calls + 1

\* the table returned is the cached object itself, not a copy of it
returns_cached_object(r, data) ==
    \/ r.path = "hit"
    \/ r.path = "except" /\ data # None

GetStockData ==
    /\ calls < MaxCalls
    /\ \E force_refresh \in BOOLEAN, prov \in CacheProviderOutcomes :
         CallGetStockData(force_refresh, prov)
    /\ UNCHANGED <<code, board, now, ticks, stats, report, today, store, history, mainVars>>

Init == ClassifierIdle /\ CacheInit /\ stats = None /\ OthersIdle /\ MainIdle

Next == Tick \/ GetStockData

Spec == Init /\ [][Next]_vars

(***************************************************************************)
(* The classifier applied to every string up to MaxCodeLen characters.     *)
(***************************************************************************)
InitClassify ==
    /\ MainIdle
    /\ code \in StringsUpTo(MaxCodeLen)
    /\ board = "none"
    /\ CacheInit
    /\ stats = None
    /\ OthersIdle

Classify ==
    /\ board = "none"
    /\ board' = classify_stock_board(code)
    /\ UNCHANGED code
    /\ UNCHANGED cacheVars
    /\ UNCHANGED <<stats, report, today, store, history, mainVars>>

NextClassify == Classify

SpecClassify == InitClassify /\ [][NextClassify]_vars

(***************************************************************************)
(* One get_market_stats call, on a new analyzer and on one whose cache is  *)
(* fresh, for every response of the five provider interfaces.              *)
(***************************************************************************)
\* non-decreasing sequences of up to n indices into 1..k: the tables up to
\* the order of their rows, which no count depends on
RECURSIVE SortedIndexSeqs(_, _)
SortedIndexSeqs(n, k) ==
    IF n = 0 THEN {<<>>}
    ELSE LET shorter == SortedIndexSeqs(n - 1, k)
             longest == {t \in shorter : Len(t) = n - 1}
         IN  shorter \cup
             UNION {{Append(t, i) : i \in {j \in 1..k : Len(t) = 0 \/ t[Len(t)] <= j}} :
                    t \in longest}

TablesOver(types, n) ==
    {[i \in 1..Len(ix) |-> types[ix[i]]] : ix \in SortedIndexSeqs(n, Len(types))}

BoardCodes == <<CodeMain, CodeSciTech, CodeGrowth, CodeBeijing>>

\* percent changes: beyond -10, down, flat, up, beyond 10, and NaN
PctValues == <<Some(-11), Some(-5), Some(0), Some(5), Some(11), None>>

\* one code per board stands for the stocks of that board
SnapRowTypes ==
    [i \in 1..(Len(BoardCodes) * Len(PctValues)) |->
        Quote(BoardCodes[((i - 1) \div Len(PctValues)) + 1],
              PctValues[((i - 1) % Len(PctValues)) + 1])]

\* limit-up pool rows: the code and the 连板数
UpRowTypes == << [code |-> CodeMain, days |-> 1], [code |-> CodeSciTech, days |-> 2] >>

ZbRowTypes == << [code |-> CodeMain], [code |-> CodeSciTech] >>

DownRowTypes == << [code |-> CodeMain], [code |-> CodeGrowth] >>

\* ak.stock_zh_index_spot_em: amounts in yuan, percentages in hundredths
IndexRow0 == [amount |-> 7 * (10 ^ 8) + 5, pct |-> 12, ratio |-> 105]
IndexRow1 == [amount |-> 6 * (10 ^ 8), pct |-> -30, ratio |-> 98]

IndexOutcomes == {Raise, Returns(<<IndexRow0>>), Returns(<<IndexRow0, IndexRow1>>)}

SnapshotOutcomes == {Raise} \cup {Returns(t) : t \in TablesOver(SnapRowTypes, MaxSnapRows)}

UpOutcomes == {Raise, Bare} \cup {Returns(t) : t \in TablesOver(UpRowTypes, MaxPoolRows)}

ZbOutcomes == {Raise} \cup {Returns(t) : t \in TablesOver(ZbRowTypes, MaxPoolRows)}

DownOutcomes == {Raise} \cup {Returns(t) : t \in TablesOver(DownRowTypes, MaxPoolRows)}

\* the table a first call at time 0 stored
WarmTable == <<Quote(CodeMain, Some(5)), Quote(CodeGrowth, Some(-11))>>

InitStats ==
    /\ MainIdle
    /\ ClassifierIdle
    /\ stats = None
    /\ OthersIdle
    /\ \/ CacheInit
       \/ /\ now = 299
          /\ cached_stock_data = Some(with_board(WarmTable))
          /\ cache_timestamp = Some(0)
          /\ ticks = 1
          /\ calls = 1
          /\ provider_calls = 1
          /\ ever_ok = TRUE
          /\ last = Some([force |-> FALSE, prov |-> Returns(WarmTable), at |-> 0,
                          pre_data |-> None, pre_ts |-> None, pre_ok |-> FALSE,
                          pre_calls |-> 0, ret |-> with_board(WarmTable),
                          called |-> TRUE, raised |-> FALSE, path |-> "stored"])

\* get_market_stats: the index call, the snapshot from the cache, then the
\* pools.  An interface that is not reached is not asked.
GetMarketStats ==
    /\ stats = None
    /\ \E idx \in IndexOutcomes :
         IF idx.kind = "raise"
         THEN /\ stats' = Some([idx |-> idx, snapshot_fetched |-> FALSE,
                                up |-> NotFetched, zb |-> NotFetched, down |-> NotFetched,
                                result |-> EmptyDict])
              /\ UNCHANGED cacheVars
         ELSE \E prov \in (IF cache_is_valid(FALSE, cached_stock_data, cache_timestamp, now)
                           THEN {NotFetched} ELSE SnapshotOutcomes) :
              LET stock_data == get_stock_data_with_board(
                                    FALSE, cached_stock_data, cache_timestamp, now, prov).ret
              IN  /\ CallGetStockData(FALSE, prov)
                  /\ IF snapshot_is_empty(stock_data) \/ index_lookup_raises(idx.rows)
                     THEN stats' = Some([idx |-> idx, snapshot_fetched |-> TRUE,
                                         up |-> NotFetched, zb |-> NotFetched,
                                         down |-> NotFetched, result |-> EmptyDict])
                     ELSE \E up \in UpOutcomes, down \in DownOutcomes :
                          \E zb \in (IF up.kind = "ok" THEN ZbOutcomes ELSE {NotFetched}) :
                            stats' = Some([idx |-> idx, snapshot_fetched |-> TRUE,
                                           up |-> up, zb |-> zb, down |-> down,
                                           result |-> aggregate(idx.rows, stock_data,
                                                                up, zb, down)])
    /\ UNCHANGED <<code, board, now, ticks, report, today, store, history, mainVars>>

NextStats == GetMarketStats

SpecStats == InitStats /\ [][NextStats]_vars

(***************************************************************************)
(* One get_decline_analysis call on a new analyzer, for snapshots with     *)
(* fewer than, exactly and more than DECLINE_RANK declining rows.          *)
(***************************************************************************)
\* n rows of one code and one percent change
Run(c, pct, n) == [i \in 1..n |-> Quote(c, pct)]

RunLengths == {0, 1, MaxRun - 1, MaxRun}

\* the snapshots: runs of equal rows, not in the order of their change
DeclineTables ==
    { Run(CodeMain, Some(5), up) \o Run(CodeGrowth, Some(-1), d1)
        \o Run(CodeMain, Some(-11), d11) \o Run(CodeSciTech, None, nan)
        \o Run(CodeBeijing, Some(0), flat) \o Run(CodeMain, Some(-5), d5) :
      up \in {0, 1}, nan \in {0, 1}, flat \in {0, 1},
      d1 \in RunLengths, d5 \in RunLengths, d11 \in RunLengths }

DeclineSnapshotOutcomes == {Raise} \cup {Returns(t) : t \in DeclineTables}

InitDecline == ClassifierIdle /\ CacheInit /\ stats = None /\ OthersIdle /\ MainIdle

GetDeclineAnalysis ==
    /\ report = None
    /\ \E prov \in DeclineSnapshotOutcomes :
         LET stock_data == get_stock_data_with_board(
                               FALSE, cached_stock_data, cache_timestamp, now, prov).ret
         IN  /\ CallGetStockData(FALSE, prov)
             /\ report' = Some([fn |-> "get_decline_analysis",
                                stock_data |-> stock_data,
                                result |-> get_decline_analysis(stock_data)])
    /\ UNCHANGED <<code, board, now, ticks, stats, today, store, history, mainVars>>

NextDecline == GetDeclineAnalysis

SpecDecline == InitDecline /\ [][NextDecline]_vars

(***************************************************************************)
(* One get_intraday_extremes call, on a new analyzer and on one that holds *)
(* a cached snapshot, fresh or expired.                                    *)
(***************************************************************************)
\* rows by their prices: calm, a gain or a drop of 20 percent (beyond the
\* main board's threshold only), a gain or a drop of 40 percent
PriceShapes ==
    << [price |-> 100, low |-> 100, high |-> 100],
       [price |-> 120, low |-> 100, high |-> 120],
       [price |-> 140, low |-> 100, high |-> 140],
       [price |-> 80, low |-> 80, high |-> 100],
       [price |-> 60, low |-> 60, high |-> 100] >>

ExtremeRowTypes ==
    [i \in 1..(Len(BoardCodes) * Len(PriceShapes)) |->
        LET c == BoardCodes[((i - 1) \div Len(PriceShapes)) + 1]
            p == PriceShapes[((i - 1) % Len(PriceShapes)) + 1]
        IN  PricedQuote(c, p.price, p.low, p.high)]

\* more main-board gainers than a list holds, none the largest
Crowd == [i \in 1..(TOP_N + 1) |-> PricedQuote(CodeMain, 116 + i, 100, 116 + i)]

ExtremeTables ==
    {crowd \o t : crowd \in {<<>>, Crowd}, t \in TablesOver(ExtremeRowTypes, MaxExtremeRows)}

ExtremeOutcomes == {Raise} \cup {Returns(t) : t \in ExtremeTables}

\* what the provider answers when the analyzer already holds a snapshot
RefetchOutcomes == {Raise, Returns(<<>>), Returns(<<PricedQuote(CodeGrowth, 140, 100, 140)>>)}

InitExtremes ==
    /\ MainIdle
    /\ ClassifierIdle
    /\ stats = None
    /\ OthersIdle
    /\ \/ CacheInit
       \/ \E t \in ExtremeTables \ {<<>>} :
            /\ now \in {FRESH_SECONDS - 1, FRESH_SECONDS}
            /\ cached_stock_data = Some(with_board(t))
            /\ cache_timestamp = Some(0)
            /\ ticks = 1
            /\ calls = 1
            /\ provider_calls = 1
            /\ ever_ok = TRUE
            /\ last = Some([force |-> FALSE, prov |-> Returns(t), at |-> 0,
                            pre_data |-> None, pre_ts |-> None, pre_ok |-> FALSE,
                            pre_calls |-> 0, ret |-> with_board(t),
                            called |-> TRUE, raised |-> FALSE, path |-> "stored"])

\* get_intraday_extremes: the snapshot from the cache, the two columns
\* written to the table it was handed, then the lists of each board
GetIntradayExtremes ==
    /\ report = None
    /\ \E prov \in (IF cache_is_valid(FALSE, cached_stock_data, cache_timestamp, now)
                    THEN {NotFetched}
                    ELSE IF cached_stock_data = None THEN ExtremeOutcomes
                    ELSE RefetchOutcomes) :
         LET r == get_stock_data_with_board(
                      FALSE, cached_stock_data, cache_timestamp, now, prov)
             stock_data == r.ret
         IN  /\ CallRecorded(FALSE, prov)
             /\ IF stock_data = <<>>
                THEN /\ cached_stock_data' = r.data
                     /\ report' = Some([fn |-> "get_intraday_extremes",
                                        stock_data |-> stock_data,
                                        result |-> <<>>])
                ELSE /\ cached_stock_data' =
                            IF returns_cached_object(r, cached_stock_data)
                            THEN Some(with_extremes(stock_data)) ELSE r.data
                     /\ report' = Some([fn |-> "get_intraday_extremes",
                                        stock_data |-> with_extremes(stock_data),
                                        result |-> get_intraday_extremes(
                                                       with_extremes(stock_data))])
    /\ UNCHANGED <<code, board, now, ticks, stats, today, store, history, mainVars>>

NextExtremes == GetIntradayExtremes

SpecExtremes == InitExtremes /\ [][NextExtremes]_vars

(***************************************************************************)
(* One get_yesterday_performance call on a new analyzer.                   *)
(***************************************************************************)
\* ak.stock_zt_pool_previous_em rows; no snapshot below lists CodeBeijing
CohortRowTypes == << [code |-> CodeMain], [code |-> CodeGrowth], [code |-> CodeBeijing] >>

CohortOutcomes == {Raise} \cup {Returns(t) : t \in TablesOver(CohortRowTypes, MaxCohortRows)}

TodayRowTypes ==
    << Quote(CodeMain, Some(5)), Quote(CodeMain, Some(-5)), Quote(CodeMain, None),
       Quote(CodeGrowth, Some(11)), Quote(CodeGrowth, Some(0)) >>

TodayOutcomes == {Raise} \cup {Returns(t) : t \in TablesOver(TodayRowTypes, MaxTodayRows)}

ExplodedOutcomes ==
    {Raise, Returns(<<>>), Returns(<<[code |-> CodeMain]>>),
     Returns(<<[code |-> CodeGrowth], [code |-> CodeBeijing]>>)}

InitYesterday == ClassifierIdle /\ CacheInit /\ stats = None /\ OthersIdle /\ MainIdle

\* get_yesterday_performance: the cohort, then the snapshot from the cache,
\* then the exploded pool when something joined
GetYesterdayPerformance ==
    /\ report = None
    /\ \E cohort \in CohortOutcomes :
         IF cohort.kind = "raise" \/ cohort.rows = <<>>
         THEN /\ report' = Some([fn |-> "get_yesterday_performance",
                                 cohort |-> cohort, today |-> NotFetched,
                                 today_data |-> <<>>, exploded |-> NotFetched,
                                 result |-> IF cohort.kind = "raise"
                                            THEN Marker("analysis failed")
                                            ELSE Marker("no data")])
              /\ UNCHANGED cacheVars
         ELSE \E prov \in TodayOutcomes :
              LET today_data == get_stock_data_with_board(
                                    FALSE, cached_stock_data, cache_timestamp, now, prov).ret
              IN  /\ CallGetStockData(FALSE, prov)
                  /\ \E exploded \in (IF performance_of(cohort.rows, today_data) # <<>>
                                      THEN ExplodedOutcomes ELSE {NotFetched}) :
                       report' = Some([fn |-> "get_yesterday_performance",
                                       cohort |-> cohort, today |-> prov,
                                       today_data |-> today_data, exploded |-> exploded,
                                       result |-> yesterday_performance_of(
                                                      cohort.rows, today_data, exploded)])
    /\ UNCHANGED <<code, board, now, ticks, stats, today, store, history, mainVars>>

NextYesterday == GetYesterdayPerformance

SpecYesterday == InitYesterday /\ [][NextYesterday]_vars

(***************************************************************************)
(* Runs that save their results: analyzers made at later and later times,  *)
(* each saving any number of times.                                        *)
(***************************************************************************)
\* 2025-12-31 15:00:00, so that a day later is another month and year
SaveBaseTime == 20453 * SECONDS_PER_DAY + 15 * 3600

\* results of two runs, told apart by their limit-up count
ResultsA == JDict([market_stats |-> JDict([limit_up_count |-> JNum(50, 0)])])
ResultsB == JDict([market_stats |-> JDict([limit_up_count |-> JNum(61, 0)])])

WriteOutcomes == {"ok", "open fails", "dump fails"}

\* the files an earlier day's run left: none, or the record of the day before
EarlierFiles ==
    {<<>>,
     save_results(<<>>, strftime_ymd(SaveBaseTime - SECONDS_PER_DAY),
                  SaveBaseTime - SECONDS_PER_DAY, ResultsA, "ok")}

CacheIdleAt(t) ==
    /\ now = t
    /\ cached_stock_data = None
    /\ cache_timestamp = None
    /\ ticks = 0
    /\ calls = 0
    /\ provider_calls = 0
    /\ ever_ok = FALSE
    /\ last = None

InitSave ==
    /\ MainIdle
    /\ ClassifierIdle
    /\ CacheIdleAt(SaveBaseTime)
    /\ stats = None
    /\ report = None
    /\ today = strftime_ymd(SaveBaseTime)
    /\ store \in EarlierFiles
    /\ history = None

saves_so_far == IF history = None THEN 0 ELSE history.v.n

SaveResults ==
    /\ saves_so_far < MaxSaves
    /\ \E results \in {ResultsA, ResultsB}, outcome \in WriteOutcomes :
         /\ store' = save_results(store, today, now, results, outcome)
         /\ history' = Some([op |-> "save_results", n |-> saves_so_far + 1,
                             date |-> today, time |-> now, results |-> results,
                             outcome |-> outcome, pre_store |-> store])
    /\ UNCHANGED <<code, board, cacheVars, stats, report, today, mainVars>>

\* the program is started again an hour or a day later: a new analyzer,
\* the files of the earlier runs still there
NewRun ==
    /\ ticks < MaxRuns
    /\ \E d \in {3600, SECONDS_PER_DAY} :
         /\ now' = now + d
         /\ today' = strftime_ymd(now + d)
    /\ ticks' = ticks + 1
    /\ UNCHANGED <<code, board, cached_stock_data, cache_timestamp, calls,
                   provider_calls, ever_ok, last, stats, report, store, history, mainVars>>

NextSave == SaveResults \/ NewRun

SpecSave == InitSave /\ [][NextSave]_vars

(***************************************************************************)
(* One get_historical_summary call over the files of the last weeks, some  *)
(* of them damaged.                                                        *)
(***************************************************************************)
\* 2024-03-10 15:00:00: the 30 dates before it span the 29th of February
HistoryTime == 19792 * SECONDS_PER_DAY + 15 * 3600

\* def get_historical_summary(self, max_days: int = 7, ...)
DEFAULT_MAX_DAYS == 7

MarketStatsOf(n) ==
    JDict([limit_up_count |-> JNum(n, 0), limit_down_count |-> JNum(3, 0),
           total_amount |-> JStr(<<"1", "3", "Y">>), money_effect |-> JNum(4550, 2)])

PerformanceOf(n) ==
    JDict([yesterday_limit_count |-> JNum(n, 0), today_up_ratio |-> JNum(60, 0)])

\* {'昨日涨停股表现': '无数据'}
NoPerformance == JDict([yesterday_perf |-> JStr(<<"n", "o", " ", "d", "a", "t", "a">>)])

ResultsOf(market_stats, yesterday_perf) ==
    JDict([market_stats |-> market_stats, yesterday_perf |-> yesterday_perf])

\* what the `results` of a stored record can be: those of a run, then
\* those that are not what a run writes
StoredResults ==
    << ResultsOf(MarketStatsOf(50), PerformanceOf(20)),
       ResultsOf(MarketStatsOf(50), NoPerformance),
       ResultsOf(JDict(<<>>), PerformanceOf(20)),
       ResultsOf(JDict(<<>>), NoPerformance),
       ResultsOf(JDict([up_count |-> JNum(5, 0)]), NoPerformance),
       JNum(5, 0),
       JStr(<<"x">>),
       ResultsOf(JNull, NoPerformance),
       ResultsOf(JNull, PerformanceOf(20)),
       ResultsOf(JStr(<<"x">>), PerformanceOf(20)),
       ResultsOf(JNum(5, 0), NoPerformance),
       ResultsOf(MarketStatsOf(50), JStr(<<"x">>)) >>

\* what the file of a date can hold: a record with one of these results,
\* text that is not JSON, a list, a dictionary without 'results'
FileContents(date) ==
    {Parsed(JDict([date |-> JStr(date), analysis_time |-> JNum(0, 0),
                   results |-> StoredResults[k]])) : k \in 1..Len(StoredResults)}
    \cup {Unparseable, Parsed(JList(<<>>)), Parsed(JDict([date |-> JStr(date)]))}

\* the dates up to the day after the last one the search can reach
DatesBack == [i \in 0..(LOOKBACK_DAYS + 1) |-> strftime_ymd(HistoryTime - i * SECONDS_PER_DAY)]

\* the date i days before the call
DateBack(i) == DatesBack[i]

\* the days back from the call that have a full record: none, all, the
\* trading days of a week, and the last ten days but the 3rd and the 7th
RecordedDays ==
    { {},
      0..(LOOKBACK_DAYS + 1),
      {i \in 0..(LOOKBACK_DAYS + 1) : i % 7 \notin {1, 2}},
      (0..9) \ {2, 6} }

FullRecordsOn(days) ==
    [f \in {filename_of(DateBack(i)) : i \in days} |->
        LET i == CHOOSE j \in days : filename_of(DateBack(j)) = f
        IN  Parsed(JDict([date |-> JStr(DateBack(i)), analysis_time |-> JNum(0, 0),
                          results |-> StoredResults[1]]))]

\* the days back whose file may hold something else: today, the last day
\* of the search and the day after it
DamagedDays == {0, LOOKBACK_DAYS - 1, LOOKBACK_DAYS}

\* files with up to n of the files of the DamagedDays replaced
RECURSIVE Damaged(_, _)
Damaged(files, n) ==
    IF n = 0 THEN {files}
    ELSE LET fewer == Damaged(files, n - 1)
         IN  fewer \cup
             UNION {{written(g, filename_of(DateBack(i)), c) : c \in FileContents(DateBack(i))} :
                    g \in fewer, i \in DamagedDays}

HistoryStores == UNION {Damaged(FullRecordsOn(days), MaxDamaged) : days \in RecordedDays}

MaxDaysChoices == {0, 1, DEFAULT_MAX_DAYS, LOOKBACK_DAYS + 1}

\* current_results: None (view_history), the results of a run (with and
\* without data), and an empty dictionary
CurrentResultsChoices ==
    {None, Some(ResultsOf(MarketStatsOf(77), PerformanceOf(30))),
     Some(ResultsOf(JDict(<<>>), NoPerformance)), Some(JDict(<<>>))}

InitHistory ==
    /\ MainIdle
    /\ ClassifierIdle
    /\ CacheIdleAt(HistoryTime)
    /\ stats = None
    /\ report = None
    /\ today = strftime_ymd(HistoryTime)
    /\ store \in HistoryStores
    /\ history = None

GetHistoricalSummary ==
    /\ history = None
    /\ \E max_days \in MaxDaysChoices, current_results \in CurrentResultsChoices :
         history' = Some([op |-> "get_historical_summary", time |-> now,
                          max_days |-> max_days, current_results |-> current_results,
                          ret |-> get_historical_summary(store, now, max_days,
                                                         current_results)])
    /\ UNCHANGED <<code, board, cacheVars, stats, report, today, store, mainVars>>

NextHistory == GetHistoricalSummary

SpecHistory == InitHistory /\ [][NextHistory]_vars

(***************************************************************************)
(* safe_extract_number applied to one field of a day's market statistics,  *)
(* for every short string, for numbers written as display strings, and for *)
(* the other kinds of JSON value.                                          *)
(***************************************************************************)
\* the characters of the strings: digits, the point, the sign, the two
\* unit suffixes, the blank and a letter
ValueChars == {"0", "5", ".", "-", "%", "Y", " ", "x"}

RECURSIVE ValueStrings(_)
ValueStrings(n) ==
    IF n = 0 THEN {<<>>}
    ELSE LET shorter == ValueStrings(n - 1)
         IN  shorter \cup
             {Append(s, c) : s \in {t \in shorter : Len(t) = n - 1}, c \in ValueChars}

\* percentages, in hundredths, and amounts that a run writes
WrittenPercentages == {-50, 0, 5, 2525, 4550, 10000}
WrittenAmounts == {0, 13, 12345}

\* a value and, for one written as a display string, the number written
CoerceInputs ==
    {[value |-> JStr(s), written |-> None] : s \in ValueStrings(MaxValueLen)}
    \cup {[value |-> JStr(str_float2(h) \o <<"%">>), written |-> Some(JNum(h, 2))] :
             h \in WrittenPercentages}
    \cup {[value |-> JStr(str_int(n) \o <<"Y">>), written |-> Some(JNum(n, 0))] :
             n \in WrittenAmounts}
    \cup {[value |-> v, written |-> None] :
             v \in {JNull, JNum(4550, 2), JNum(-3, 0), JList(<<>>), JDict(<<>>)}}

InitCoerce ==
    /\ MainIdle
    /\ ClassifierIdle
    /\ CacheInit
    /\ stats = None
    /\ today = strftime_ymd(0)
    /\ store = <<>>
    /\ history = None
    /\ \E input \in CoerceInputs :
         report = Some([fn |-> "safe_extract_number", value |-> input.value,
                        written |-> input.written, entry |-> None])

\* the entry of a day whose money effect is the value and whose other
\* fields are those of a run
Coerce ==
    /\ report # None
    /\ report.v.fn = "safe_extract_number"
    /\ report.v.entry = None
    /\ report' = Some([report.v EXCEPT !.entry =
           Some(day_summary_of(today,
                               JDict([limit_up_count |-> JNum(50, 0),
                                      total_amount |-> JStr(<<"1", "3", "Y">>),
                                      money_effect |-> report.v.value]),
                               PerformanceOf(20), TRUE, TRUE))])
    /\ UNCHANGED <<code, board, cacheVars, stats, today, store, history, mainVars>>

NextCoerce == Coerce

SpecCoerce == InitCoerce /\ [][NextCoerce]_vars

(***************************************************************************)
(* Runs of main(): the analysis, the record, the workbook and the display, *)
(* then the program started again later the same day, at the last second   *)
(* of the day, or a day later.                                             *)
(***************************************************************************)
\* 2025-12-31 15:00:00
MainBaseTime == 20453 * SECONDS_PER_DAY + 15 * 3600

\* what run_analysis returns, told apart by the streak count; the second
\* is the result of a run whose snapshot was empty
MainResultsChoices ==
    {JDict([market_stats |-> JDict([streak_count |-> JNum(3, 0)])]),
     JDict([market_stats |-> JDict(<<>>)])}

WorkbookOutcomes == {"ok", "save refused", "save cut short"}

\* the seconds that pass between two readings of the clock in one call
ClockReadGaps == {0, 1}

\* an hour, the time from 15:00:00 to 23:59:59, a day
RestartDelays == {3600, 32399, SECONDS_PER_DAY}

InitMain ==
    /\ ClassifierIdle
    /\ CacheIdleAt(MainBaseTime)
    /\ stats = None
    /\ report = None
    /\ today = strftime_ymd(MainBaseTime)
    /\ store = <<>>
    /\ history = None
    /\ pc = "run_analysis"
    /\ run_results = None
    /\ excel = <<>>
    /\ log = <<>>

\* results = analyzer.run_analysis()
MainRunAnalysis ==
    /\ pc = "run_analysis"
    /\ \/ \E r \in MainResultsChoices :
            /\ run_results' = Some(r)
            /\ pc' = main_next("run_analysis", FALSE)
            /\ log' = Append(log, [op |-> "run_analysis", results |-> r])
       \/ /\ pc' = main_next("run_analysis", TRUE)
          /\ log' = Append(log, [op |-> "run_analysis", results |-> JNull])
          /\ UNCHANGED run_results
    /\ UNCHANGED <<code, board, cacheVars, stats, report, today, store, history, excel>>

\* analyzer.save_results(results)
MainSaveResults ==
    /\ pc = "save_results"
    /\ \E outcome \in WriteOutcomes :
         /\ store' = save_results(store, today, now, run_results.v, outcome)
         /\ pc' = main_next("save_results", save_results_raises(outcome))
         /\ log' = Append(log, [op |-> "save_results", results |-> run_results.v,
                                outcome |-> outcome])
    /\ UNCHANGED <<code, board, cacheVars, stats, report, today, history,
                   run_results, excel>>

\* analyzer.save_to_excel(results)
MainSaveToExcel ==
    /\ pc = "save_to_excel"
    /\ \E gap1 \in ClockReadGaps, gap2 \in ClockReadGaps, outcome \in WorkbookOutcomes :
         LET t_year == now
             t_row == now + gap1
             t_check == now + gap1 + gap2
         IN  /\ excel' = save_to_excel(excel, run_results.v, t_year, t_row, t_check, outcome)
             /\ now' = t_check
             /\ log' = Append(log, [op |-> "save_to_excel", results |-> run_results.v,
                                    t_year |-> t_year, t_row |-> t_row,
                                    t_check |-> t_check, pre_excel |-> excel])
    /\ pc' = main_next("save_to_excel", FALSE)
    /\ UNCHANGED <<code, board, cached_stock_data, cache_timestamp, ticks, calls,
                   provider_calls, ever_ok, last, stats, report, today, store,
                   history, run_results>>

\* the loop over results.items() and the table of the last days; a format
\* code that does not fit a value raises
MainDisplay ==
    /\ pc = "display"
    /\ \E raised \in BOOLEAN : pc' = main_next("display", raised)
    /\ log' = Append(log, [op |-> "display", results |-> run_results.v])
    /\ UNCHANGED <<code, board, cacheVars, stats, report, today, store, history,
                   run_results, excel>>

\* the program is started again: a new analyzer, the files still there
MainRestart ==
    /\ pc \in {"done", "raised"}
    /\ ticks < MaxRestarts
    /\ \E d \in RestartDelays :
         /\ now' = now + d
         /\ today' = strftime_ymd(now + d)
    /\ ticks' = ticks + 1
    /\ pc' = "run_analysis"
    /\ run_results' = None
    /\ log' = <<>>
    /\ UNCHANGED <<code, board, cached_stock_data, cache_timestamp, calls,
                   provider_calls, ever_ok, last, stats, report, store, history, excel>>

NextMain ==
    \/ MainRunAnalysis
    \/ MainSaveResults
    \/ MainSaveToExcel
    \/ MainDisplay
    \/ MainRestart

SpecMain == InitMain /\ [][NextMain]_vars

(***************************************************************************)
(* C1: classify_stock_board returns, for every string, exactly one of the  *)
(* four segments, chosen by the first matching rule: '68' SciTechBoard,    *)
(* '3' GrowthBoard, '4', '8' or '9' BeijingExchange, '0' or '6' MainBoard, *)
(* anything else (the empty string included) MainBoard.                    *)
(***************************************************************************)
FirstMatchingRule(c) ==
    LET first == IF Len(c) >= 1 THEN c[1] ELSE ""
        second == IF Len(c) >= 2 THEN c[2] ELSE ""
    IN  IF first = "6" /\ second = "8" THEN "SciTechBoard"
        ELSE IF first = "3" THEN "GrowthBoard"
        ELSE IF first \in {"4", "8", "9"} THEN "BeijingExchange"
        ELSE IF first \in {"0", "6"} THEN "MainBoard"
        ELSE "MainBoard"

C1_ClassifyFirstMatch ==
    board # "none" => board \in Segments /\ board = FirstMatchingRule(code)

C1_Witness ==
    /\ board = "SciTechBoard"
    /\ Len(code) = MaxCodeLen

(***************************************************************************)
(* C2: a call with force_refresh = false made less than 300 seconds after  *)
(* the fetch that filled the cache returns the cached table and issues no  *)
(* provider call.                                                          *)
(***************************************************************************)
C2_FreshHitNoProviderCall ==
    (/\ last # None
     /\ ~last.v.force
     /\ last.v.pre_data # None
     /\ last.v.at - last.v.pre_ts.v < FRESH_SECONDS)
    => /\ ~last.v.called
       /\ last.v.ret = last.v.pre_data.v
       /\ provider_calls = last.v.pre_calls
       /\ cached_stock_data = last.v.pre_data

C2_Witness ==
    /\ last # None
    /\ ~last.v.force
    /\ last.v.pre_data # None
    /\ last.v.at - last.v.pre_ts.v = FRESH_SECONDS - 1
    /\ provider_calls = 1
    /\ calls = 2

(***************************************************************************)
(* C3: a call issues a new provider call whenever force_refresh = true,    *)
(* and whenever the cached fetch is 300 seconds old or older, however      *)
(* large the age.                                                          *)
(***************************************************************************)
C3_ExpiredOrForcedCallsProvider ==
    (/\ last # None
     /\ \/ last.v.force
        \/ /\ last.v.pre_data # None
           /\ last.v.at - last.v.pre_ts.v >= FRESH_SECONDS)
    => last.v.called

(***************************************************************************)
(* C4: when the provider call raises, the call does not raise; it returns  *)
(* the previously cached table if there is one, whatever its age and       *)
(* whatever force_refresh is, and an empty table otherwise.                *)
(***************************************************************************)
C4_ProviderFailureFallsBack ==
    (/\ last # None
     /\ last.v.called
     /\ last.v.prov = Raise)
    => /\ ~last.v.raised
       /\ last.v.ret = IF last.v.pre_data # None THEN last.v.pre_data.v ELSE <<>>

C4_Witness ==
    /\ last # None
    /\ last.v.called
    /\ last.v.prov = Raise
    /\ last.v.pre_data # None
    /\ last.v.at - last.v.pre_ts.v > SECONDS_PER_DAY
    /\ last.v.ret = last.v.pre_data.v

(***************************************************************************)
(* C5: once a fetch has succeeded on the analyzer, every later call        *)
(* returns a non-empty table, whatever the provider raises or returns.     *)
(***************************************************************************)
C5_NonEmptyAfterSuccess ==
    (last # None /\ last.v.pre_ok) => last.v.ret # <<>>

(***************************************************************************)
(* The get_market_stats call reached the pools: the index interface        *)
(* returned its two rows and the snapshot is not empty.                    *)
(***************************************************************************)
StatsReachedPools ==
    /\ stats # None
    /\ stats.v.idx.kind = "ok"
    /\ Len(stats.v.idx.rows) >= 2
    /\ stats.v.snapshot_fetched
    /\ last.v.ret # <<>>

PoolNames == {"up", "zb", "down"}

PoolRaised(p) == stats.v[p].kind = "raise"

\* the pool was asked and returned a table with rows
PoolReturnedRows(p) == stats.v[p].kind = "ok" /\ stats.v[p].rows # <<>>

C7_ZeroDenominatorsReadZero ==
    (/\ StatsReachedPools
     /\ stats.v.up.kind = "ok" /\ stats.v.up.rows = <<>>
     /\ stats.v.zb.kind = "ok" /\ stats.v.zb.rows = <<>>
     /\ PoolReturnedRows("down"))
    => /\ ~stats.v.result.empty
       /\ stats.v.result.exploded_rate = 0
       /\ \A b \in DOMAIN stats.v.result.board_stats :
            stats.v.result.board_stats[b].total = 0
                => stats.v.result.board_stats[b].money_effect = 0

(***************************************************************************)
(* C8: in every non-empty record the market-wide money-effect and exploded *)
(* rate and every per-segment money-effect and exploded rate lie in        *)
(* [0, 100] (0..10000 hundredths of a percent).                            *)
(***************************************************************************)
InPercentRange(x) == 0 <= x /\ x <= 10000

C9_EmptySnapshotShortCircuits ==
    (stats # None /\ stats.v.snapshot_fetched /\ last.v.ret = <<>>)
    => /\ stats.v.result = EmptyDict
       /\ \A p \in PoolNames : stats.v[p] = NotFetched

C9_Witness ==
    /\ stats # None
    /\ stats.v.snapshot_fetched
    /\ last.v.ret = <<>>
    /\ last.v.prov = Returns(<<>>)
    /\ Len(stats.v.idx.rows) >= 2

(***************************************************************************)
(* C10: the ratio string is limitUp(nonMainLimitUp)+over10Up, the          *)
(* parenthetical shown also when nonMainLimitUp is 0, then ':', then       *)
(* limitDown(nonMainLimitDown)+over10Down when nonMainLimitDown > 0 and    *)
(* limitDown+over10Down exactly when nonMainLimitDown is 0.                *)
(***************************************************************************)
RatioUpSide(r) ==
    str_int(r.limit_up_count) \o <<"(">> \o str_int(r.greater_than_ten_of_limit_up)
        \o <<")", "+">> \o str_int(r.greater_than_ten_of_not_limit_up)

RatioDownSide(r) ==
    IF r.greater_than_ten_of_limit_down = 0
    THEN str_int(r.limit_down_count) \o <<"+">>
            \o str_int(r.greater_than_ten_of_not_limit_down)
    ELSE str_int(r.limit_down_count) \o <<"(">>
            \o str_int(r.greater_than_ten_of_limit_down) \o <<")", "+">>
            \o str_int(r.greater_than_ten_of_not_limit_down)

C10_RatioString ==
    (stats # None /\ ~stats.v.result.empty)
    => /\ stats.v.result.up_down_rate =
            RatioUpSide(stats.v.result) \o <<":">> \o RatioDownSide(stats.v.result)
       /\ stats.v.result.limit_up_count = Len(stats.v.up.rows)
       /\ stats.v.result.limit_down_count = Len(stats.v.down.rows)
       /\ stats.v.result.greater_than_ten_of_limit_up = count_non_main(stats.v.up.rows)
       /\ stats.v.result.greater_than_ten_of_limit_down = count_non_main(stats.v.down.rows)

C10_Witness ==
    /\ stats # None
    /\ ~stats.v.result.empty
    /\ stats.v.result.greater_than_ten_of_limit_up = 0
    /\ stats.v.result.greater_than_ten_of_limit_down = 0
    /\ stats.v.result.up_down_rate = <<"1", "(", "0", ")", "+", "0", ":", "1", "+", "0">>

(***************************************************************************)
(* C11: get_decline_analysis reports the percent change of the 60th row of *)
(* the strictly declining rows in ascending order, that is the 60th most   *)
(* negative value, when at least 60 rows decline, and null when fewer do;  *)
(* flat, rising and NaN rows never count.                                  *)
(***************************************************************************)
DecliningCount(rows) == Cardinality({i \in 1..Len(rows) : pct_lt(rows[i], 0)})

\* v is the k-th smallest of the negative changes, counted with repetitions
IsKthMostNegative(rows, k, v) ==
    /\ v < 0
    /\ Cardinality({i \in 1..Len(rows) : pct_lt(rows[i], v)}) < k
    /\ Cardinality({i \in 1..Len(rows) : pct_lt(rows[i], v + 1)}) >= k

DeclineReported ==
    /\ report # None
    /\ report.v.fn = "get_decline_analysis"
    /\ ~report.v.result.empty

C11_DeclineRank ==
    DeclineReported =>
        LET rows == report.v.stock_data
            r == report.v.result.decline_60th
        IN  IF DecliningCount(rows) >= DECLINE_RANK
            THEN r # None /\ IsKthMostNegative(rows, DECLINE_RANK, r.v)
            ELSE r = None

\* exactly 60 declining rows among flat and rising ones: the least negative
C11_Witness ==
    /\ DeclineReported
    /\ DecliningCount(report.v.stock_data) = DECLINE_RANK
    /\ \E i \in 1..Len(report.v.stock_data) : pct_eq(report.v.stock_data[i], 0)
    /\ \E i \in 1..Len(report.v.stock_data) : pct_gt(report.v.stock_data[i], 0)
    /\ report.v.result.decline_60th = Some(-5)

(***************************************************************************)
(* C12: a segment appears in the result of get_intraday_extremes only if   *)
(* one of its rows is beyond the segment's threshold in some direction; a  *)
(* segment with rows but none beyond the threshold is absent from the      *)
(* result, not present with empty lists.                                   *)
(***************************************************************************)
ExtremesReported ==
    /\ report # None
    /\ report.v.fn = "get_intraday_extremes"

HasQualifyingRow(rows, b) ==
    \E i \in 1..Len(rows) :
        /\ rows[i].board = b
        /\ \/ rows[i].gain_from_low > board_thresholds[b]
           \/ rows[i].drop_from_high < 0 - board_thresholds[b]

C12_OnlyQualifyingSegments ==
    ExtremesReported =>
        \A b \in DOMAIN report.v.result : HasQualifyingRow(report.v.stock_data, b)

(***************************************************************************)
(* C13: with an empty previous-day cohort get_yesterday_performance        *)
(* returns the 'no data' marker, which holds none of the numeric fields;   *)
(* otherwise cohort entries whose code is not in today's snapshot are      *)
(* dropped without error, the count reported is the number of cohort       *)
(* entries whose code is in the snapshot, and the up-ratio is taken over   *)
(* those entries only.                                                     *)
(***************************************************************************)
YesterdayReported ==
    /\ report # None
    /\ report.v.fn = "get_yesterday_performance"

NumericKeys == {"yesterday_limit_count", "today_avg", "today_up_ratio", "exploded_today_avg"}

\* the positions of the cohort entries whose code today's snapshot lists
JoinedEntries(cohort, today_data) ==
    {i \in 1..Len(cohort) : \E j \in 1..Len(today_data) : today_data[j].code = cohort[i].code}

\* of those, the entries whose stock is up today
JoinedUp(cohort, today_data) ==
    {i \in JoinedEntries(cohort, today_data) :
        LET p == today_dict(today_data, cohort[i].code).pct IN p # None /\ p.v > 0}

SavedOk ==
    /\ history # None
    /\ history.v.op = "save_results"
    /\ history.v.outcome = "ok"

HadRecord(files, date) ==
    /\ exists(files, filename_of(date))
    /\ files[filename_of(date)].kind = "json"

C18_WriteOncePerDate ==
    SavedOk /\ HadRecord(history.v.pre_store, history.v.date) =>
        store[filename_of(history.v.date)] =
            history.v.pre_store[filename_of(history.v.date)]

(***************************************************************************)
(* C19: after a successful save_results call, whatever was saved before    *)
(* for this and for other dates, the store holds exactly one record for    *)
(* the date, under its 8-digit YYYYMMDD key, and the records of the other  *)
(* dates are as they were.                                                 *)
(***************************************************************************)
Digits == {"0", "1", "2", "3", "4", "5", "6", "7", "8", "9"}

\* the files that hold a record of the date
RecordsOf(files, date) ==
    {f \in DOMAIN files :
        /\ files[f].kind = "json"
        /\ files[f].value.d.date = JStr(date)}

C19_OneRecordPerDate ==
    SavedOk =>
        /\ Len(history.v.date) = 8
        /\ \A i \in 1..8 : history.v.date[i] \in Digits
        /\ RecordsOf(store, history.v.date) = {filename_of(history.v.date)}
        /\ DOMAIN store = (DOMAIN history.v.pre_store) \cup {filename_of(history.v.date)}
        /\ \A f \in (DOMAIN history.v.pre_store) \ {filename_of(history.v.date)} :
               store[f] = history.v.pre_store[f]

\* a second successful save for a date, with the record of another date
\* in the store
C19_Witness ==
    /\ SavedOk
    /\ HadRecord(history.v.pre_store, history.v.date)
    /\ store[filename_of(history.v.date)] #
           history.v.pre_store[filename_of(history.v.date)]
    /\ \E f \in DOMAIN store :
           /\ f # filename_of(history.v.date)
           /\ store[f].kind = "json"

(***************************************************************************)
(* C14: get_historical_summary(max_days) returns at most max_days entries, *)
(* each for a distinct date among the 30 calendar dates ending today, the  *)
(* most recent first; it examines the dates backward from today and no     *)
(* further date once max_days entries are collected or 30 dates have been  *)
(* examined.                                                               *)
(***************************************************************************)
SummaryCalled ==
    /\ history # None
    /\ history.v.op = "get_historical_summary"

SummaryReturned == SummaryCalled /\ ~history.v.ret.raised

\* how many days before the call a date of the window lies
DaysBack(date) == CHOOSE i \in 0..(LOOKBACK_DAYS - 1) : DateBack(i) = date

C14_BoundedAndOrdered ==
    SummaryReturned =>
        LET summary == history.v.ret.summary
            examined == history.v.ret.examined
            max_days == history.v.max_days
        IN  /\ Len(summary) <= max_days
            /\ \A k \in 1..Len(summary) :
                   \E i \in 0..(LOOKBACK_DAYS - 1) : summary[k].date = DateBack(i)
            /\ \A k \in 1..(Len(summary) - 1) :
                   DaysBack(summary[k].date) < DaysBack(summary[k + 1].date)
            /\ Len(examined) <= LOOKBACK_DAYS
            /\ \A i \in 1..Len(examined) : examined[i] = DateBack(i - 1)
            /\ Len(summary) < max_days => Len(examined) = LOOKBACK_DAYS
            /\ Len(summary) = max_days =>
                   \/ max_days = 0 /\ examined = <<>>
                   \/ max_days > 0 /\ summary[max_days].date = examined[Len(examined)]

\* more days asked for than the search covers, every date with a record
C14_Witness ==
    /\ SummaryReturned
    /\ history.v.max_days = LOOKBACK_DAYS + 1
    /\ Len(history.v.ret.summary) = LOOKBACK_DAYS
    /\ exists(store, filename_of(DateBack(LOOKBACK_DAYS)))

(***************************************************************************)
(* C15: a date whose record is missing, or holds none of the market-stats  *)
(* keys (limit-up count, limit-down count, money effect) and not the       *)
(* previous-day count key, is not in the output and takes no slot: the     *)
(* output is made of the min(max_days, number of valid dates in the 30-day *)
(* window) most recent valid dates.  Today's record is current_results     *)
(* when the call carries results.                                          *)
(***************************************************************************)
HasKey(j, keys) == j.t = "dict" /\ DOMAIN j.d \cap keys # {}

ValidResults(results) ==
    /\ results.t = "dict"
    /\ \/ /\ "market_stats" \in DOMAIN results.d
          /\ HasKey(results.d.market_stats,
                    {"limit_up_count", "limit_down_count", "money_effect"})
       \/ /\ "yesterday_perf" \in DOMAIN results.d
          /\ HasKey(results.d.yesterday_perf, {"yesterday_limit_count"})

ValidFile(files, date) ==
    /\ filename_of(date) \in DOMAIN files
    /\ files[filename_of(date)].kind = "json"
    /\ HasKey(files[filename_of(date)].value, {"results"})
    /\ ValidResults(files[filename_of(date)].value.d.results)

CarriesResults ==
    /\ history.v.current_results # None
    /\ DOMAIN history.v.current_results.v.d # {}

ValidDaysBack ==
    {i \in 0..(LOOKBACK_DAYS - 1) :
        IF i = 0 /\ CarriesResults THEN ValidResults(history.v.current_results.v)
        ELSE ValidFile(store, DateBack(i))}

C15_InvalidDaysTakeNoSlot ==
    SummaryReturned /\ (history.v.current_results = None \/ CarriesResults) =>
        LET summary == history.v.ret.summary
            valid == ValidDaysBack
            n == IF history.v.max_days < Cardinality(valid)
                 THEN history.v.max_days ELSE Cardinality(valid)
        IN  /\ Len(summary) = n
            /\ \A k \in 1..n :
                   \E i \in valid :
                       /\ Cardinality({j \in valid : j < i}) = k - 1
                       /\ summary[k].date = DateBack(i)

\* ten dates of which the 3rd and the 7th have no record: seven entries
\* that reach back nine days
C15_Witness ==
    /\ SummaryReturned
    /\ history.v.current_results = None
    /\ history.v.max_days = DEFAULT_MAX_DAYS
    /\ DOMAIN store = {filename_of(DateBack(i)) : i \in (0..9) \ {2, 6}}
    /\ Len(history.v.ret.summary) = 7
    /\ history.v.ret.summary[7].date = DateBack(8)

C20_DamagedRecordsNeverFatal == SummaryCalled => ~history.v.ret.raised

(***************************************************************************)
(* C17: safe_extract_number returns a numeric value as it is; a display    *)
(* string made of a number followed by '%' or by the amount unit yields    *)
(* that number; a value that cannot be parsed yields 0 for its field only: *)
(* the other fields of the entry come from their own values and no error   *)
(* is raised.                                                              *)
(***************************************************************************)
Coerced ==
    /\ report # None
    /\ report.v.fn = "safe_extract_number"
    /\ report.v.entry # None

\* a / 10^e = b / 10^f
NumEq(a, b) == a.m * (10 ^ b.e) = b.m * (10 ^ a.e)

\* values no number can be read from: null, lists, dictionaries, strings
\* with a letter and strings without a digit
NoNumberIn(value) ==
    \/ value.t \in {"null", "list", "dict"}
    \/ /\ value.t = "str"
       /\ \/ \E i \in 1..Len(value.s) : value.s[i] = "x"
          \/ \A i \in 1..Len(value.s) : value.s[i] \notin Digits

C17_FieldCoercion ==
    Coerced =>
        LET value == report.v.value
            entry == report.v.entry.v
        IN  /\ entry.money_effect.t = "num"
            /\ value.t = "num" => entry.money_effect = value
            /\ report.v.written # None => NumEq(entry.money_effect, report.v.written.v)
            /\ NoNumberIn(value) => entry.money_effect = JNum(0, 0)
            /\ entry.limit_up_count = JNum(50, 0)
            /\ NumEq(entry.total_amount, JNum(13, 0))
            /\ entry.yesterday_limit_count = JNum(20, 0)

\* a string with the percent sign and no number before it: 0 for the
\* field, the other fields from their own values
C17_Witness ==
    /\ Coerced
    /\ report.v.value = JStr(<<"x", "%">>)
    /\ report.v.entry.v.money_effect = JNum(0, 0)
    /\ report.v.entry.v.limit_up_count = JNum(50, 0)
    /\ NumEq(report.v.entry.v.total_amount, JNum(13, 0))

(***************************************************************************)
(* C24: a get_stock_data_with_board call that is a cache hit, whose        *)
(* provider call raises, or whose provider returns an empty table leaves   *)
(* the cached table and the cache timestamp as they were; a call whose     *)
(* provider returns a non-empty table stores that table, classified, and   *)
(* the time of the call together; the timestamp is set exactly when a      *)
(* table is cached.                                                        *)
(***************************************************************************)
FetchedNonEmpty(l) == l.called /\ l.prov.kind = "ok" /\ l.prov.rows # <<>>

C24_CacheChangesOnlyOnSuccess ==
    /\ (cache_timestamp = None) <=> (cached_stock_data = None)
    /\ last # None =>
         IF FetchedNonEmpty(last.v)
         THEN /\ cached_stock_data = Some(with_board(last.v.prov.rows))
              /\ cache_timestamp = Some(last.v.at)
         ELSE /\ cached_stock_data = last.v.pre_data
              /\ cache_timestamp = last.v.pre_ts

\* a refresh that replaced a cached table by another one, stored at a later time
C24_Witness ==
    /\ last # None
    /\ FetchedNonEmpty(last.v)
    /\ last.v.pre_data # None
    /\ cached_stock_data # last.v.pre_data
    /\ cache_timestamp # last.v.pre_ts

(***************************************************************************)
(* The last call main() made was save_to_excel.                            *)
(***************************************************************************)
ExcelCalled == log # <<>> /\ log[Len(log)].op = "save_to_excel"

\* the data rows for the date of the time t in the workbook of its year
DataRowsFor(files, t) ==
    LET filename == workbook_name(year_of(t))
    IN  IF filename \notin DOMAIN files \/ files[filename].kind # "xlsx" THEN {}
        ELSE {i \in 2..Len(files[filename].rows) :
                 files[filename].rows[i].date = JStr(strftime_slash(t))}

(***************************************************************************)
(* C21: after a save_to_excel call the yearly sheet holds exactly one data *)
(* row for the date of the call, and a call made when the sheet already    *)
(* has a row for that date leaves the workbooks as they were.              *)
(***************************************************************************)
C21_ExportRejectsDuplicates ==
    ExcelCalled =>
        LET call == log[Len(log)]
        IN  /\ Cardinality(DataRowsFor(excel, call.t_year)) = 1
            /\ DataRowsFor(call.pre_excel, call.t_year) # {} => excel = call.pre_excel

(***************************************************************************)
(* C22: when the write of save_results fails, main() does not end with     *)
(* the error: its next calls are save_to_excel and then the display, both  *)
(* with the mapping that run_analysis returned, which is still the value   *)
(* of `results`.                                                           *)
(***************************************************************************)
SaveFailedAt(i) == log[i].op = "save_results" /\ log[i].outcome # "ok"

C22_SaveFailureDoesNotAbort ==
    \A i \in 1..Len(log) :
        SaveFailedAt(i) =>
            /\ log[i - 1].op = "run_analysis"
            /\ log[i].results = log[i - 1].results
            /\ run_results = Some(log[i].results)
            /\ Len(log) = i => pc = "save_to_excel"
            /\ Len(log) > i =>
                 /\ log[i + 1].op = "save_to_excel"
                 /\ log[i + 1].results = log[i].results
            /\ Len(log) = i + 1 => pc = "display"
            /\ Len(log) > i + 1 =>
                 /\ log[i + 2].op = "display"
                 /\ log[i + 2].results = log[i].results

\* a run whose record could not be written and that went through the
\* workbook and the display to its end
C22_Witness ==
    /\ pc = "done"
    /\ Len(log) = 4
    /\ SaveFailedAt(2)
    /\ log[4].op = "display"

(***************************************************************************)
(* The get_market_stats call returned a record that is not empty.          *)
(***************************************************************************)
StatsRecorded == stats # None /\ ~stats.v.result.empty

\* the sum of the values of f over the set S of its arguments
RECURSIVE SumOf(_, _)
SumOf(f, S) ==
    IF S = {} THEN 0
    ELSE LET x == CHOOSE y \in S : TRUE
         IN  f[x] + SumOf(f, S \ {x})

\* the sum of a count over the segments of the breakdown
SegmentSum(field) ==
    LET bs == stats.v.result.board_stats
    IN  SumOf([b \in DOMAIN bs |-> bs[b][field]], DOMAIN bs)

\* the sum of a limit count over the segments of the breakdown; a segment
\* without the key adds nothing
SegmentLimitSum(field) ==
    LET bs == stats.v.result.board_stats
    IN  SumOf([b \in DOMAIN bs |-> IF bs[b][field] = None THEN 0 ELSE bs[b][field].v],
              DOMAIN bs)

(***************************************************************************)
(* C25: in every non-empty record the per-segment up, down and flat counts *)
(* add up to the market-wide up, down and flat counts, and the per-segment *)
(* limit-up and limit-down counts add up to the market-wide limit-up and   *)
(* limit-down counts.                                                      *)
(***************************************************************************)
C25_SegmentsPartitionTotals ==
    StatsRecorded =>
        /\ SegmentSum("up") = stats.v.result.up_count
        /\ SegmentSum("down") = stats.v.result.down_count
        /\ SegmentSum("flat") = stats.v.result.flat_count
        /\ SegmentLimitSum("limit_up") = stats.v.result.limit_up_count
        /\ SegmentLimitSum("limit_down") = stats.v.result.limit_down_count

(***************************************************************************)
(* C26: in every non-empty record the count of rows that rose more than    *)
(* 10% without being limited up and the count of rows that fell more than  *)
(* 10% without being limited down are not negative.                        *)
(***************************************************************************)
C26_OverTenCountsNotNegative ==
    StatsRecorded =>
        /\ stats.v.result.greater_than_ten_of_not_limit_up >= 0
        /\ stats.v.result.greater_than_ten_of_not_limit_down >= 0

(***************************************************************************)
(* C27: every entry of the summary comes from a record that has market     *)
(* statistics (one of the limit-up count, limit-down count and money       *)
(* effect keys) or previous-day performance (the count key), and its       *)
(* has_valid_data is true exactly when the record has both; a record with  *)
(* only one of the two gives an entry like any other, one of the at most   *)
(* max_days entries, with has_valid_data false.                            *)
(***************************************************************************)
\* the results the entry of the date i days back is built from
ResultsDaysBack(i) ==
    IF i = 0 /\ CarriesResults THEN history.v.current_results.v
    ELSE store[filename_of(DateBack(i))].value.d.results

HasMarketData(results) ==
    /\ "market_stats" \in DOMAIN results.d
    /\ HasKey(results.d.market_stats, {"limit_up_count", "limit_down_count", "money_effect"})

HasYesterdayData(results) ==
    /\ "yesterday_perf" \in DOMAIN results.d
    /\ HasKey(results.d.yesterday_perf, {"yesterday_limit_count"})

\* the dates back that the summary has an entry for
EntriesDaysBack ==
    {i \in 0..(LOOKBACK_DAYS - 1) :
        \E k \in 1..Len(history.v.ret.summary) : history.v.ret.summary[k].date = DateBack(i)}

C27_HasValidDataFlag ==
    SummaryReturned /\ (history.v.current_results = None \/ CarriesResults) =>
        LET summary == history.v.ret.summary
            valid == ValidDaysBack
        IN  /\ \A k \in 1..Len(summary) :
                 LET results == ResultsDaysBack(DaysBack(summary[k].date))
                 IN  /\ HasMarketData(results) \/ HasYesterdayData(results)
                     /\ summary[k].has_valid_data
                            <=> (HasMarketData(results) /\ HasYesterdayData(results))
            /\ \A i \in valid :
                 Cardinality({j \in valid : j < i}) < history.v.max_days
                     => i \in EntriesDaysBack

\* seven entries, the limit of the call, of which one comes from a record
\* with market statistics only and is marked as incomplete
C27_Witness ==
    /\ SummaryReturned
    /\ history.v.current_results = None
    /\ history.v.max_days = DEFAULT_MAX_DAYS
    /\ Len(history.v.ret.summary) = DEFAULT_MAX_DAYS
    /\ \E k \in 1..Len(history.v.ret.summary) :
         LET results == ResultsDaysBack(DaysBack(history.v.ret.summary[k].date))
         IN  /\ ~history.v.ret.summary[k].has_valid_data
             /\ HasMarketData(results)
             /\ ~HasYesterdayData(results)
    /\ \E k \in 1..Len(history.v.ret.summary) : history.v.ret.summary[k].has_valid_data

(***************************************************************************)
(* C23: the cached snapshot is not modified by the analyses that read it:  *)
(* after a call served from the cache (a hit, or the fallback when the     *)
(* provider raises) the cached table has the rows and columns it had       *)
(* before the call, those the last successful fetch stored.                *)
(***************************************************************************)
ServedFromCache ==
    /\ last # None
    /\ last.v.pre_data # None
    /\ ~last.v.called \/ last.v.prov.kind = "raise"

C23_CacheNotModifiedByConsumers ==
    ServedFromCache => cached_stock_data = last.v.pre_data

====
